---- MODULE Spec2Model ----
(***************************************************************************)
(* State-machine model of the geostar energy scraper: the session manager  *)
(* (auth), the daily-fetch and backfill jobs (cron), the readings store    *)
(* (db) and the vendor as a nondeterministic HTTP peer.                     *)
(***************************************************************************)
EXTENDS Integers, Sequences, FiniteSets, TLC

(***************************************************************************)
(* Bounds of the model.                                                    *)
(***************************************************************************)
\* clock advances per behaviour
MaxTicks == 2
\* readings in one vendor energy response
MaxReadings == 2
\* session ids the vendor hands out per behaviour
MaxLogins == 3
\* job invocations per behaviour
MaxRuns == 2
\* job invocations per behaviour when the vendor lists two gateways
MaxFanoutRuns == 1
\* nesting of objects below an entry of the location data handed to a single
\* call of getGateways
MaxDepth == 1
\* columns of an energy body handed to a single call of parseEnergyResponse
MaxColumns == 2

(***************************************************************************)
(* Time.  All instants are UTC milliseconds.                               *)
(***************************************************************************)
HOUR_MS == 60 * 60 * 1000
DAY_MS == 24 * 60 * 60 * 1000
SESSION_MAX_AGE_MS == 12 * 60 * 60 * 1000

\* The steps by which the clock may advance between two steps of the program.
ClockSteps == {1, SESSION_MAX_AGE_MS}

\* new Date(`${dateStr}T00:00:00Z`).getTime(): civil dates are day numbers
\* counted from 1970-01-01.
DateToUtcMs(dateStr) == dateStr * DAY_MS

\* Floor division (instants before the epoch are negative).
FloorDiv(a, b) == IF a >= 0 THEN a \div b ELSE -(((-a) + b - 1) \div b)

\* Daylight saving time in America/Los_Angeles: from 02:00 PST (10:00 UTC) of
\* a day in spring to 02:00 PDT (09:00 UTC) of a day in autumn.  Instants are
\* counted from a midnight UTC a few days before the first change, and the
\* summer is cut to a week, so that both changes are instants TLC's integers
\* hold.
DstStart == 8 * DAY_MS + 10 * HOUR_MS
DstEnd == 15 * DAY_MS + 9 * HOUR_MS

\* Intl's longOffset rendering of the zone at an instant, as <<sign, hh, mm>>,
\* or <<>> when the formatter output has no GMT+hh:mm part (UTC renders "GMT").
TIMEZONE == "America/Los_Angeles"
LongOffset(timezone, instant) ==
    CASE timezone = "America/Los_Angeles" ->
           IF instant >= DstStart /\ instant < DstEnd THEN <<"-", 7, 0>> ELSE <<"-", 8, 0>>
      [] timezone = "Asia/Kolkata" -> <<"+", 5, 30>>
      [] OTHER -> <<>>

getTimezoneOffsetMs(timezone, dateStr) ==
    LET date == DateToUtcMs(dateStr) + 12 * HOUR_MS
        match == LongOffset(timezone, date)
    IN  IF match = <<>> THEN 0
        ELSE LET sign == IF match[1] = "+" THEN 1 ELSE -1
             IN  sign * (match[2] * 3600000 + match[3] * 60000)

\* Intl.DateTimeFormat('en-CA', {timeZone}).format(instant): the civil date of
\* an instant in the zone.
FormatDate(timezone, instant) ==
    LET off == LongOffset(timezone, instant)
        offMs == IF off = <<>> THEN 0
                 ELSE (IF off[1] = "+" THEN 1 ELSE -1) * (off[2] * 3600000 + off[3] * 60000)
    IN  FloorDiv(instant + offMs, DAY_MS)

getYesterdayDateRange(timezone, dateNow) ==
    [start |-> FormatDate(timezone, dateNow - 24 * 60 * 60 * 1000),
     end |-> FormatDate(timezone, dateNow)]

\* midnightToday of runDailyFetch.
MidnightToday(timezone, end) ==
    DateToUtcMs(end) - getTimezoneOffsetMs(timezone, end)

(***************************************************************************)
(* Session manager: pure parts.                                            *)
(***************************************************************************)
NoSession == [sessionId |-> 0, userKey |-> "", createdAt |-> 0]

isSessionExpiredNever(session, dateNow) == FALSE

isSessionExpiredGe(session, dateNow) ==
    dateNow - session.createdAt >= SESSION_MAX_AGE_MS

isSessionExpired(session, dateNow) ==
    dateNow - session.createdAt > SESSION_MAX_AGE_MS

\* JSON values of the fields the code reads: Absent (undefined), the empty
\* string, and non-empty strings.
Absent == "<absent>"
UserKeyFields == <<"awlUserKey", "awluserkey", "auk", "id", "user_id", "userId">>
FieldVals == {Absent, "", "uk1"}
ErrVals == {Absent, "", "session expired"}
Truthy(v) == v # Absent /\ v # ""

\* a || b || c ...: the first truthy operand, else the last operand.
RECURSIVE OrChain(_, _, _)
OrChain(fields, obj, i) ==
    IF i = Len(fields) THEN obj[fields[i]]
    ELSE IF Truthy(obj[fields[i]]) THEN obj[fields[i]]
    ELSE OrChain(fields, obj, i + 1)

\* A response of GET /api.php/user: the fetch may reject (threw); the body is
\* not JSON ("invalid"), the JSON value null ("null") or an object.
UserBodies ==
    [json : {"object"}, err : ErrVals, keys : [{UserKeyFields[i] : i \in 1..6} -> FieldVals]]
      \cup [json : {"invalid", "null"}, err : {Absent},
            keys : {[f \in {UserKeyFields[i] : i \in 1..6} |-> Absent]}]
UserResponses ==
    [threw : {FALSE}, status : {200, 403, 500}, body : UserBodies]
      \cup [threw : {TRUE}, status : {0},
            body : {[json |-> "invalid", err |-> Absent,
                     keys |-> [f \in {UserKeyFields[i] : i \in 1..6} |-> Absent]]}]

ResponseOk(resp) == resp.status >= 200 /\ resp.status <= 299

\* Outcome of an async function: it throws error, or it returns value.
\* auth marks an AuthError (error instanceof AuthError).
Returned(v) == [throws |-> FALSE, auth |-> FALSE, error |-> "", value |-> v]
Thrown(msg, v) == [throws |-> TRUE, auth |-> FALSE, error |-> msg, value |-> v]
ThrownAuthError(msg, v) == [throws |-> TRUE, auth |-> TRUE, error |-> msg, value |-> v]

validateSessionNoErrCheck(resp) ==
    IF resp.threw THEN Returned(FALSE)
    ELSE IF ~ResponseOk(resp) THEN Returned(FALSE)
    ELSE IF resp.body.json # "object" THEN Returned(FALSE)
    ELSE Returned(Truthy(OrChain(UserKeyFields, resp.body.keys, 1)))

validateSession(resp) ==
    IF resp.threw THEN Returned(FALSE)
    ELSE IF ~ResponseOk(resp) THEN Returned(FALSE)
    ELSE IF resp.body.json = "invalid" THEN Returned(FALSE)
    \* property access on null throws a TypeError, caught by the outer catch
    ELSE IF resp.body.json = "null" THEN Returned(FALSE)
    ELSE IF Truthy(resp.body.err) /\ resp.body.err # "" THEN Returned(FALSE)
    ELSE Returned(Truthy(OrChain(UserKeyFields, resp.body.keys, 1)))

\* A getUserKey that probes the fields in the opposite order (not in auth.ts).
getUserKeyReversed(resp) ==
    IF resp.threw THEN Thrown("fetch failed", "")
    ELSE IF ~ResponseOk(resp) THEN Thrown("Failed to get user info", "")
    ELSE IF resp.body.json = "invalid"
      THEN Thrown("Failed to parse user API response as JSON", "")
    ELSE IF resp.body.json = "null" THEN Thrown("TypeError", "")
    ELSE LET userKey == OrChain([i \in 1..6 |-> UserKeyFields[7 - i]], resp.body.keys, 1)
         IN  IF ~Truthy(userKey) THEN Thrown("Failed to get user key from user data", "")
             ELSE Returned(userKey)

\* getUserKey, from the response of GET /api.php/user on.
getUserKey(resp) ==
    IF resp.threw THEN Thrown("fetch failed", "")
    ELSE IF ~ResponseOk(resp) THEN Thrown("Failed to get user info", "")
    ELSE IF resp.body.json = "invalid"
      THEN Thrown("Failed to parse user API response as JSON", "")
    ELSE IF resp.body.json = "null" THEN Thrown("TypeError", "")
    ELSE LET userKey == OrChain(UserKeyFields, resp.body.keys, 1)
         IN  IF ~Truthy(userKey) THEN Thrown("Failed to get user key from user data", "")
             ELSE Returned(userKey)

\* A response of POST /account/login: setCookie is "none" (no header),
\* "other" (a header without sessionid=...) or "sessionid" (sessionid=<sid>).
LoginResponses ==
    [threw : {FALSE}, status : {302, 200}, setCookie : {"none", "other", "sessionid"}]
      \cup {[threw |-> TRUE, status |-> 0, setCookie |-> "none"]}

\* login, up to the session id (its first await); sid is the id the vendor
\* put in the cookie.
loginPostAnyStatus(resp, sid) ==
    IF resp.threw THEN Thrown("fetch failed", 0)
    ELSE IF resp.setCookie = "none" THEN Thrown("Login failed: no Set-Cookie header", 0)
    ELSE IF resp.setCookie # "sessionid"
      THEN Thrown("Login failed: no sessionid in Set-Cookie", 0)
    ELSE Returned(sid)

loginPost(resp, sid) ==
    IF resp.threw THEN Thrown("fetch failed", 0)
    ELSE IF resp.status # 302 THEN Thrown("Login failed: expected 302", 0)
    ELSE IF resp.setCookie = "none" THEN Thrown("Login failed: no Set-Cookie header", 0)
    ELSE IF resp.setCookie # "sessionid"
      THEN Thrown("Login failed: no sessionid in Set-Cookie", 0)
    ELSE Returned(sid)

(***************************************************************************)
(* The store: the sessions table and the energy_readings table.            *)
(***************************************************************************)
getStoredSession(tbl) ==
    IF \A row \in tbl : row.id # 1 THEN NoSession
    ELSE LET result == CHOOSE row \in tbl : row.id = 1
         IN  [sessionId |-> result.session_id, userKey |-> result.user_key,
              createdAt |-> result.created_at]

\* INSERT OR IGNORE INTO sessions (not in auth.ts).
storeSessionIgnore(tbl, session) ==
    IF \E row \in tbl : row.id = 1 THEN tbl
    ELSE tbl \cup {[id |-> 1, session_id |-> session.sessionId,
                    user_key |-> session.userKey, created_at |-> session.createdAt]}

\* INSERT INTO a sessions table without the single-row key (not in auth.ts).
storeSessionInsert(tbl, session) ==
    tbl \cup {[id |-> 1, session_id |-> session.sessionId,
                user_key |-> session.userKey, created_at |-> session.createdAt]}

\* UPDATE sessions SET session_id, user_key WHERE id = 1 when the row exists:
\* a partial update that keeps created_at (not in auth.ts).
storeSessionKeepsCreatedAt(tbl, session) ==
    {[id |-> 1, session_id |-> session.sessionId, user_key |-> session.userKey,
      created_at |-> IF \E row \in tbl : row.id = 1
                       THEN (CHOOSE row \in tbl : row.id = 1).created_at
                       ELSE session.createdAt]}

\* INSERT OR REPLACE INTO sessions (id, ...) VALUES (1, ?, ?, ?)
storeSession(tbl, session) ==
    {row \in tbl : row.id # 1}
      \cup {[id |-> 1, session_id |-> session.sessionId,
              user_key |-> session.userKey, created_at |-> session.createdAt]}

\* A row of energy_readings; total_power stands for the 16 metric columns,
\* which the statement binds alike.
Row(gatewayId, r) ==
    [gateway_id |-> gatewayId, timestamp |-> r.timestamp, total_power |-> r.total_power]

Conflicts(tbl, gatewayId, r) ==
    {row \in tbl : row.gateway_id = gatewayId /\ row.timestamp = r.timestamp}

\* One INSERT OR REPLACE statement (not in db.ts).
InsertOrReplace(tbl, gatewayId, r) ==
    [table |-> (tbl \ Conflicts(tbl, gatewayId, r)) \cup {Row(gatewayId, r)},
     changes |-> 1]

\* One INSERT statement into a table without the UNIQUE constraint (not in
\* db.ts, schema.sql).
InsertPlain(tbl, gatewayId, r) ==
    [table |-> tbl \cup {Row(gatewayId, r)}, changes |-> 1]

\* One INSERT ... ON CONFLICT DO UPDATE statement that adds the bound metric
\* to the stored one (not in db.ts).
InsertAccumulate(tbl, gatewayId, r) ==
    IF Conflicts(tbl, gatewayId, r) # {}
      THEN [table |-> (tbl \ Conflicts(tbl, gatewayId, r))
                        \cup {[row EXCEPT !.total_power = @ + r.total_power] :
                                row \in Conflicts(tbl, gatewayId, r)},
            changes |-> 1]
      ELSE [table |-> tbl \cup {Row(gatewayId, r)}, changes |-> 1]

\* One INSERT OR IGNORE statement: the table after it and meta.changes.
InsertOrIgnore(tbl, gatewayId, r) ==
    IF Conflicts(tbl, gatewayId, r) # {} THEN [table |-> tbl, changes |-> 0]
    ELSE [table |-> tbl \cup {Row(gatewayId, r)}, changes |-> 1]

\* db.batch(statements): the statements in order; the table and the number of
\* results with meta.changes > 0.
RECURSIVE BatchIgnore(_, _, _, _)
BatchIgnore(tbl, gatewayId, readings, i) ==
    IF i > Len(readings) THEN [table |-> tbl, inserted |-> 0]
    ELSE LET one == InsertOrIgnore(tbl, gatewayId, readings[i])
             rest == BatchIgnore(one.table, gatewayId, readings, i + 1)
         IN  [table |-> rest.table,
              inserted |-> rest.inserted + (IF one.changes > 0 THEN 1 ELSE 0)]

RECURSIVE BatchReplace(_, _, _, _)
BatchReplace(tbl, gatewayId, readings, i) ==
    IF i > Len(readings) THEN [table |-> tbl, inserted |-> 0]
    ELSE LET one == InsertOrReplace(tbl, gatewayId, readings[i])
             rest == BatchReplace(one.table, gatewayId, readings, i + 1)
         IN  [table |-> rest.table,
              inserted |-> rest.inserted + (IF one.changes > 0 THEN 1 ELSE 0)]

insertEnergyReadingsReplace(tbl, gatewayId, readings) ==
    IF Len(readings) = 0 THEN [table |-> tbl, inserted |-> 0, skipped |-> 0]
    ELSE LET results == BatchReplace(tbl, gatewayId, readings, 1)
         IN  [table |-> results.table, inserted |-> results.inserted,
              skipped |-> Len(readings) - results.inserted]

\* insertEnergyReadings(db, gatewayId, readings): the function declares these
\* three parameters; a fourth argument at a call site is not read.
insertEnergyReadings(tbl, gatewayId, readings) ==
    IF Len(readings) = 0 THEN [table |-> tbl, inserted |-> 0, skipped |-> 0]
    ELSE LET results == BatchIgnore(tbl, gatewayId, readings, 1)
         IN  [table |-> results.table, inserted |-> results.inserted,
              skipped |-> Len(readings) - results.inserted]

(***************************************************************************)
(* Vendor client: gateway listing and energy readings.                     *)
(***************************************************************************)
GatewayIds == {"gw1", "gw2"}
GatewayLists == {<<>>, <<"gw1">>, <<"gw1", "gw2">>}

\* The parsed JSON of the location API, as far as getGateways reads it: an
\* object or an array, an object's gwid (absent, a string, or a value that is
\* not a string) and the entries whose value is itself an object or an array,
\* in Object.entries order.
NonString == "<number>"
JObj(gwid, kids) == [kind |-> "object", gwid |-> gwid, kids |-> kids]
JArr(kids) == [kind |-> "array", gwid |-> Absent, kids |-> kids]
GwObjects(found) == [i \in DOMAIN found |-> JObj(found[i], <<>>)]

\* A response of the location API: gateways is the top-level gateways field
\* (an array of gateway objects, or missing), root the top-level object with
\* its other entries.  LocationResponse builds the two shapes the vendor is
\* known to send: the gateways array, or gateway objects nested in an array
\* under another key.
LocationResponse(threw, status, json, hasArray, found) ==
    [threw |-> threw, status |-> status, json |-> json,
     gateways |-> IF hasArray THEN JArr(GwObjects(found)) ELSE JObj(Absent, <<>>),
     hasGateways |-> hasArray,
     root |-> JObj(Absent, IF hasArray \/ found = <<>> THEN <<>>
                           ELSE <<JArr(GwObjects(found))>>)]

LocationFailures ==
    {LocationResponse(FALSE, s, FALSE, FALSE, <<>>) : s \in {200, 401, 403, 500}}
      \cup {LocationResponse(TRUE, 0, FALSE, FALSE, <<>>)}

GatewayResponses ==
    {LocationResponse(FALSE, 200, TRUE, h, f) : h \in BOOLEAN, f \in GatewayLists}
      \cup LocationFailures

\* data as findGateways sees it: a gateways field that is an object but not
\* an array is one of the entries of the top-level object.
LocationData(resp) ==
    IF resp.hasGateways THEN [resp.root EXCEPT !.kids = <<resp.gateways>> \o @]
    ELSE resp.root

\* A search that looks at the entries of the top-level object only (not in
\* geostar-client.ts).
findGatewaysShallow(obj) ==
    LET hits == SelectSeq(obj.kids, LAMBDA v : v.kind = "object"
                                                /\ v.gwid \notin {Absent, NonString})
    IN  (IF obj.kind = "object" /\ obj.gwid \notin {Absent, NonString}
           THEN <<obj.gwid>> ELSE <<>>)
          \o [i \in DOMAIN hits |-> hits[i].gwid]

\* findGateways(obj): the gwid of obj when it has a string gwid, then the
\* search of every entry whose value is an object or an array, in order.
RECURSIVE findGateways(_)
RECURSIVE FindInEntries(_, _)
FindInEntries(kids, i) ==
    IF i > Len(kids) THEN <<>>
    ELSE findGateways(kids[i]) \o FindInEntries(kids, i + 1)
findGateways(obj) ==
    (IF obj.kind = "object" /\ obj.gwid \notin {Absent, NonString}
       THEN <<obj.gwid>> ELSE <<>>)
      \o FindInEntries(obj.kids, 1)

\* A getGateways that takes every non-OK status for an expired session (not
\* in geostar-client.ts).
getGatewaysAuthOnNonOk(resp) ==
    IF resp.threw THEN Thrown("fetch failed", <<>>)
    ELSE IF ~ResponseOk(resp) THEN ThrownAuthError("Session expired", <<>>)
    ELSE IF ~resp.json THEN Thrown("Failed to parse location data as JSON", <<>>)
    ELSE IF resp.hasGateways /\ resp.gateways.kind = "array"
      THEN Returned([i \in DOMAIN resp.gateways.kids |-> resp.gateways.kids[i].gwid])
    ELSE LET gateways == findGateways(LocationData(resp))
         IN  IF Len(gateways) > 0 THEN Returned(gateways)
             ELSE Thrown("No gateways found in location data", <<>>)

\* getGateways, from the response on; a gateway is written as its gwid.
getGateways(resp) ==
    IF resp.threw THEN Thrown("fetch failed", <<>>)
    ELSE IF ~ResponseOk(resp)
      THEN IF resp.status = 401 \/ resp.status = 403
             THEN ThrownAuthError("Session expired", <<>>)
             ELSE Thrown("Failed to get location data", <<>>)
    ELSE IF ~resp.json THEN Thrown("Failed to parse location data as JSON", <<>>)
    ELSE IF resp.hasGateways /\ resp.gateways.kind = "array"
      THEN Returned([i \in DOMAIN resp.gateways.kids |-> resp.gateways.kids[i].gwid])
    ELSE LET gateways == findGateways(LocationData(resp))
         IN  IF Len(gateways) > 0 THEN Returned(gateways)
             ELSE Thrown("No gateways found in location data", <<>>)

\* Readings: the vendor's rows for the window asked for, at the first slot of
\* yesterday and the first slot of today (the midnight boundary itself).
Vals == {1, 2}
Slots(midnight) == {midnight - DAY_MS, midnight}
Readings(midnight) == [timestamp : Slots(midnight), total_power : Vals]
ReadingLists(midnight) ==
    UNION {[1..n -> Readings(midnight)] : n \in 0..MaxReadings}

\* A top-level field of the energy body: an array with its elements, a value
\* that is not an array, or no such field.
Arr(elems) == [kind |-> "array", elems |-> elems]
NotArr == [kind |-> "notArray", elems |-> <<>>]
Missing == [kind |-> "missing", elems |-> <<>>]

\* The columnar body the vendor sends for a list of readings: the metric
\* columns, the timestamps (index) and one row of values per timestamp.
EnergyBody(readings) ==
    [json |-> "object",
     columns |-> Arr(<<"total_power">>),
     index |-> Arr([i \in 1..Len(readings) |-> readings[i].timestamp]),
     data |-> Arr([i \in 1..Len(readings) |-> <<readings[i].total_power>>])]

\* Bodies with a top-level field missing or not an array.
MalformedBodies(midnight) ==
    {[EnergyBody(<<[timestamp |-> midnight, total_power |-> 1]>>) EXCEPT ![f] = v] :
        f \in {"columns", "index", "data"}, v \in {NotArr, Missing}}

\* A body that is not JSON, and the JSON value null.
OtherBody(json) == [json |-> json, columns |-> Missing, index |-> Missing, data |-> Missing]

EnergyResponses(midnight) ==
    [threw : {FALSE}, status : {200},
     body : {EnergyBody(l) : l \in ReadingLists(midnight)} \cup MalformedBodies(midnight)
              \cup {OtherBody("null")}]
      \cup [threw : {FALSE}, status : {200, 401, 403, 500}, body : {OtherBody("invalid")}]
      \cup [threw : {TRUE}, status : {0}, body : {OtherBody("invalid")}]

\* A parse that does not test the data field: a missing data field gives one
\* reading of zeros per index entry (not in geostar-client.ts).
parseEnergyResponseNoDataTest(data) ==
    IF data.columns.kind # "array" THEN <<>>
    ELSE IF data.index.kind # "array" THEN <<>>
    ELSE [i \in 1..Len(data.index.elems) |->
            [timestamp |-> data.index.elems[i], total_power |-> 0]]

\* colIndex.get(colName): Map.set keeps the last position of a repeated name;
\* 0 when the name is not a column.
ColIndex(columns, colName) ==
    LET at == {i \in DOMAIN columns : columns[i] = colName}
    IN  IF at = {} THEN 0 ELSE CHOOSE i \in at : \A k \in at : k <= i

\* A JSON null among the values of a row, written as a number no metric takes.
Null == 0 - 1

\* A lookup by position: the value at the metric's place in the documented
\* column order, whatever the columns array says (not in geostar-client.ts).
getValPositional(columns, row, colName) ==
    IF 1 \in DOMAIN row /\ row[1] # Null THEN row[1] ELSE 0

\* getVal(row, colName): idx !== undefined ? (row[idx] ?? 0) : 0
getVal(columns, row, colName) ==
    LET idx == ColIndex(columns, colName)
    IN  IF idx # 0 /\ idx \in DOMAIN row /\ row[idx] # Null THEN row[idx] ELSE 0

parseEnergyResponse(data) ==
    IF data.columns.kind # "array" THEN <<>>
    ELSE IF data.index.kind # "array" THEN <<>>
    ELSE IF data.data.kind # "array" THEN <<>>
    ELSE LET columns == data.columns.elems
             index == data.index.elems
             rows == data.data.elems
         IN  [i \in 1..Len(index) |->
                LET row == IF i \in DOMAIN rows THEN rows[i] ELSE <<>>
                IN  [timestamp |-> index[i],
                     total_power |-> getVal(columns, row, "total_power")]]

\* getEnergyData.
getEnergyData(resp) ==
    IF resp.threw THEN Thrown("fetch failed", <<>>)
    ELSE IF ~ResponseOk(resp)
      THEN IF resp.status = 401 \/ resp.status = 403
             THEN ThrownAuthError("Session expired", <<>>)
             ELSE Thrown("Failed to get energy data", <<>>)
    ELSE IF resp.body.json = "invalid" THEN Thrown("Failed to parse energy data as JSON", <<>>)
    \* destructuring null throws a TypeError
    ELSE IF resp.body.json = "null" THEN Thrown("TypeError", <<>>)
    ELSE Returned(parseEnergyResponse(resp.body))

\* What the top-level fields of a parsed JSON object body are (columns,
\* index, data); <<>> when the response has no such body.
BodyShape(resp) ==
    IF resp.threw \/ ~ResponseOk(resp) \/ resp.body.json # "object" THEN <<>>
    ELSE <<resp.body.columns.kind, resp.body.index.kind, resp.body.data.kind>>

(***************************************************************************)
(* Jobs: the split of runDailyFetch.                                       *)
(***************************************************************************)
RECURSIVE Filter(_, _, _, _)
\* readings.filter: keep r with r.timestamp < bound (below) or >= bound.
Filter(readings, bound, below, i) ==
    IF i > Len(readings) THEN <<>>
    ELSE LET r == readings[i]
             rest == Filter(readings, bound, below, i + 1)
         IN  IF (below /\ r.timestamp < bound) \/ (~below /\ r.timestamp >= bound)
               THEN <<r>> \o rest ELSE rest

yesterdayReadings(readings, midnightToday) == Filter(readings, midnightToday, TRUE, 1)

todayReadingsStrict(readings, midnightToday) == Filter(readings, midnightToday + 1, FALSE, 1)

todayReadings(readings, midnightToday) == Filter(readings, midnightToday, FALSE, 1)

(***************************************************************************)
(* State.                                                                  *)
(***************************************************************************)
VARIABLES
    now,              \* Date.now()
    ticks,            \* clock advances so far
    runs,             \* job invocations so far
    nextSid,          \* the next session id the vendor hands out
    sessions,         \* the sessions table
    energy_readings,  \* the energy_readings table
    pc,               \* per invocation: the await it is suspended at
    job,              \* per invocation: the locals of the job function
    log,              \* per invocation: what it has done so far (history)
    provisional,      \* rows first written by a today insert (history)
    unit,             \* a single call of a pure function: input and output
    firstRun          \* the invocation that returned before a repeated one (history)

vars == <<now, ticks, runs, nextSid, sessions, energy_readings, pc, job, log,
          provisional, unit, firstRun>>

\* The two triggers of section 5: the scheduled trigger and a manual request.
Procs == {"scheduled", "manual"}

NoCall == [fn |-> "none", createdAt |-> 0, dateNow |-> 0, resp |-> <<>>, out |-> <<>>]

NoResult == [inserted |-> 0, skipped |-> 0]

\* The locals of runDailyFetch / backfillData at entry.
InitJob(kind, override) ==
    [kind |-> kind, override |-> override,
     ctx |-> "getValidSession", retried |-> FALSE,
     storedSession |-> NoSession, sessionId |-> 0, newSession |-> NoSession,
     session |-> NoSession,
     gateways |-> <<>>, i |-> 0, midnightToday |-> 0,
     readings |-> <<>>, yesterdayReadings |-> <<>>, todayReadings |-> <<>>,
     yesterdayResult |-> NoResult,
     result |-> [success |-> TRUE, gateways |-> <<>>, error |-> "",
                 loginRefreshed |-> FALSE]]

\* No invocation has been repeated.
NoRun == [done |-> FALSE, job |-> InitJob("daily", FALSE), log |-> <<>>,
          energy_readings |-> {}]

\* A history entry: the operation, the session id and gateway it used, a
\* number (a status, an age, a count) and the rows or response it saw.
EventR(op, sid, gw, n, rows) == [op |-> op, sid |-> sid, gw |-> gw, n |-> n, rows |-> rows]
Event(op, sid, gw, n) == EventR(op, sid, gw, n, <<>>)

Init ==
    /\ now = 0
    /\ ticks = 0
    /\ runs = 0
    /\ nextSid = 1
    /\ sessions = {}
    /\ energy_readings = {}
    /\ pc = [p \in Procs |-> "idle"]
    /\ job = [p \in Procs |-> InitJob("daily", FALSE)]
    /\ log = [p \in Procs |-> <<>>]
    /\ provisional = {}
    /\ unit = NoCall
    /\ firstRun = NoRun

(***************************************************************************)
(* Environment: the clock.                                                 *)
(***************************************************************************)
Tick(d) ==
    /\ ticks < MaxTicks
    /\ now' = now + d
    /\ ticks' = ticks + 1
    /\ UNCHANGED <<runs, nextSid, sessions, energy_readings, pc, job, log, provisional, unit, firstRun>>

\* An outer catch that records the message and leaves success as it was (not
\* in cron.ts).
JobFailedKeepsSuccess(j, msg) ==
    [j EXCEPT !.result.error = msg]

(***************************************************************************)
(* Job steps.  Each action is the code between two awaits.                 *)
(***************************************************************************)
\* The outer catch of the job: result.success = false, result.error = message.
JobFailed(j, msg) ==
    [j EXCEPT !.result.success = FALSE, !.result.error = msg]

\* handleManualCron / handleScheduled / handleBackfill call the job.
Start(p, kind, override) ==
    /\ pc[p] \in {"idle", "done"}
    /\ runs < MaxRuns
    /\ runs' = runs + 1
    /\ pc' = [pc EXCEPT ![p] = "getStoredSession"]
    /\ job' = [job EXCEPT ![p] = InitJob(kind, override)]
    /\ log' = [log EXCEPT ![p] = <<>>]
    /\ UNCHANGED <<now, ticks, nextSid, sessions, energy_readings, provisional, unit, firstRun>>

\* The trigger fires again after runDailyFetch has returned: the locals, the
\* history and the table of the invocation that returned are kept in firstRun.
RunAgain(p) ==
    /\ pc[p] = "done"
    /\ job[p].kind = "daily"
    /\ ~firstRun.done
    /\ runs < MaxRuns
    /\ runs' = runs + 1
    /\ firstRun' = [done |-> TRUE, job |-> job[p], log |-> log[p],
                    energy_readings |-> energy_readings]
    /\ pc' = [pc EXCEPT ![p] = "getStoredSession"]
    /\ job' = [job EXCEPT ![p] = InitJob("daily", FALSE)]
    /\ log' = [log EXCEPT ![p] = <<>>]
    /\ UNCHANGED <<now, ticks, nextSid, sessions, energy_readings, provisional, unit>>

\* getValidSession: await getStoredSession(db), then the expiry test.
LoadSession(p, dbOk) ==
    /\ pc[p] = "getStoredSession"
    /\ IF ~dbOk
         THEN /\ pc' = [pc EXCEPT ![p] = "done"]
              /\ job' = [job EXCEPT ![p] = JobFailed(@, "D1_ERROR")]
              /\ log' = log
         ELSE LET storedSession == getStoredSession(sessions)
                  probe == storedSession # NoSession
                             /\ ~isSessionExpired(storedSession, now)
              IN  /\ pc' = [pc EXCEPT ![p] = IF probe THEN "validateSession" ELSE "login"]
                  /\ job' = [job EXCEPT ![p].storedSession = storedSession]
                  /\ log' = [log EXCEPT ![p] =
                               Append(@, Event("load", storedSession.sessionId, "",
                                               now - storedSession.createdAt))]
    /\ UNCHANGED <<now, ticks, runs, nextSid, sessions, energy_readings, provisional, unit, firstRun>>

\* The probe responses the jobs draw from: one per branch of validateSession
\* and getUserKey.
ProbeKeys(f, v) == [g \in {UserKeyFields[i] : i \in 1..6} |-> IF g = f THEN v ELSE Absent]
ProbeResponses ==
    {r \in UserResponses :
        /\ r.status \in {0, 200, 500}
        /\ r.body.keys \in {ProbeKeys("auk", "uk1"), ProbeKeys("auk", Absent)}
        /\ r.body.err \in {Absent, "session expired"}}

\* A getValidSession that renews the stored row when the probe succeeds (not
\* in auth.ts).
ValidateStoredRenews(p, resp) ==
    /\ pc[p] = "validateSession"
    /\ LET isValid == validateSession(resp)
       IN  /\ log' = [log EXCEPT ![p] =
                       Append(@, Event(IF isValid.value THEN "probe-ok" ELSE "probe-failed",
                                       job[p].storedSession.sessionId, "", 0))]
           /\ IF isValid.value
                THEN /\ pc' = [pc EXCEPT ![p] = "getGateways"]
                     /\ job' = [job EXCEPT ![p].session = job[p].storedSession]
                     /\ sessions' = storeSession(sessions,
                                       [job[p].storedSession EXCEPT !.createdAt = now])
                ELSE /\ pc' = [pc EXCEPT ![p] = "login"]
                     /\ job' = job
                     /\ sessions' = sessions
    /\ UNCHANGED <<now, ticks, runs, nextSid, energy_readings, provisional, unit, firstRun>>

\* getValidSession: await validateSession(storedSession).
ValidateStored(p, resp) ==
    /\ pc[p] = "validateSession"
    /\ LET isValid == validateSession(resp)
       IN  /\ log' = [log EXCEPT ![p] =
                       Append(@, Event(IF isValid.throws THEN "probe-threw"
                                       ELSE IF isValid.value THEN "probe-ok" ELSE "probe-failed",
                                       job[p].storedSession.sessionId, "", 0))]
           /\ IF isValid.throws
                THEN /\ pc' = [pc EXCEPT ![p] = "done"]
                     /\ job' = [job EXCEPT ![p] = JobFailed(@, isValid.error)]
                ELSE IF isValid.value
                THEN \* return { session: storedSession, fresh: false }
                     /\ pc' = [pc EXCEPT ![p] = "getGateways"]
                     /\ job' = [job EXCEPT ![p].session = job[p].storedSession,
                                           ![p].result.loginRefreshed = FALSE]
                ELSE /\ pc' = [pc EXCEPT ![p] = "login"]
                     /\ job' = job
    /\ UNCHANGED <<now, ticks, runs, nextSid, sessions, energy_readings, provisional, unit, firstRun>>

\* login: await fetch(POST /account/login), then the cookie.
LoginPost(p, resp) ==
    /\ pc[p] = "login"
    /\ resp.setCookie = "sessionid" => nextSid <= MaxLogins
    /\ LET r == loginPost(resp, nextSid)
       IN  IF r.throws
             THEN /\ pc' = [pc EXCEPT ![p] = "done"]
                  /\ job' = [job EXCEPT ![p] = JobFailed(@, r.error)]
                  /\ UNCHANGED nextSid
             ELSE /\ pc' = [pc EXCEPT ![p] = "getUserKey"]
                  /\ job' = [job EXCEPT ![p].sessionId = r.value]
                  /\ nextSid' = nextSid + 1
    /\ log' = [log EXCEPT ![p] =
                 Append(@, Event("login-post", 0, resp.setCookie,
                                 IF resp.threw THEN 0 ELSE resp.status))]
    /\ UNCHANGED <<now, ticks, runs, sessions, energy_readings, provisional, unit, firstRun>>

\* A re-login whose session goes to another variable than the one the job
\* goes on with (not in cron.ts).
LoginUserKeyKeepsSession(p, resp) ==
    /\ pc[p] = "getUserKey"
    /\ LET r == getUserKey(resp)
       IN  IF r.throws
             THEN /\ pc' = [pc EXCEPT ![p] = "done"]
                  /\ job' = [job EXCEPT ![p] = JobFailed(@, r.error)]
                  /\ log' = [log EXCEPT ![p] =
                               Append(@, EventR("login-user", 0, "", 0, <<resp>>))]
             ELSE LET newSession == [sessionId |-> job[p].sessionId, userKey |-> r.value,
                                     createdAt |-> now]
                  IN  /\ pc' = [pc EXCEPT ![p] = "storeSession"]
                      /\ job' = [job EXCEPT ![p].newSession = newSession]
                      /\ log' = [log EXCEPT ![p] =
                                   Append(@, EventR("login-user", newSession.sessionId, "",
                                                    newSession.createdAt, <<resp>>))]
    /\ UNCHANGED <<now, ticks, runs, nextSid, sessions, energy_readings, provisional, unit, firstRun>>

\* login: await getUserKey(sessionId), then the Session with Date.now().
LoginUserKey(p, resp) ==
    /\ pc[p] = "getUserKey"
    /\ LET r == getUserKey(resp)
       IN  IF r.throws
             THEN /\ pc' = [pc EXCEPT ![p] = "done"]
                  /\ job' = [job EXCEPT ![p] = JobFailed(@, r.error)]
                  /\ log' = [log EXCEPT ![p] =
                               Append(@, EventR("login-user", 0, "", 0, <<resp>>))]
             ELSE LET newSession == [sessionId |-> job[p].sessionId, userKey |-> r.value,
                                     createdAt |-> now]
                  IN  /\ pc' = [pc EXCEPT ![p] = "storeSession"]
                      \* the re-login assigns session before storeSession
                      /\ job' = [job EXCEPT ![p].newSession = newSession,
                                            ![p].session =
                                               IF job[p].ctx = "relogin" THEN newSession ELSE @]
                      /\ log' = [log EXCEPT ![p] =
                                   Append(@, EventR("login-user", newSession.sessionId, "",
                                                    newSession.createdAt, <<resp>>))]
    /\ UNCHANGED <<now, ticks, runs, nextSid, sessions, energy_readings, provisional, unit, firstRun>>

\* A job whose loginRefreshed is only what getValidSession reported: the
\* re-login stores its session without setting the flag (not in cron.ts).
StoreSessionFlagFromAuth(p, dbOk) ==
    /\ pc[p] = "storeSession"
    /\ IF ~dbOk
         THEN /\ pc' = [pc EXCEPT ![p] = "done"]
              /\ job' = [job EXCEPT ![p] = JobFailed(@, "D1_ERROR")]
              /\ log' = log
              /\ UNCHANGED sessions
         ELSE /\ sessions' = storeSession(sessions, job[p].newSession)
              /\ pc' = [pc EXCEPT ![p] = "getGateways"]
              /\ job' = [job EXCEPT ![p].session =
                                       IF job[p].ctx = "relogin" THEN @ ELSE job[p].newSession,
                                    ![p].result.loginRefreshed =
                                       IF job[p].ctx = "relogin" THEN @ ELSE TRUE]
              /\ log' = [log EXCEPT ![p] =
                           Append(@, Event("store", job[p].newSession.sessionId, "", 0))]
    /\ UNCHANGED <<now, ticks, runs, nextSid, energy_readings, provisional, unit, firstRun>>

\* await storeSession(db, newSession), then fresh = true / loginRefreshed = true.
StoreSession(p, dbOk) ==
    /\ pc[p] = "storeSession"
    /\ IF ~dbOk
         THEN /\ pc' = [pc EXCEPT ![p] = "done"]
              /\ job' = [job EXCEPT ![p] = JobFailed(@, "D1_ERROR")]
              /\ log' = log
              /\ UNCHANGED sessions
         ELSE /\ sessions' = storeSession(sessions, job[p].newSession)
              /\ pc' = [pc EXCEPT ![p] = "getGateways"]
              \* getValidSession returns { session: newSession, fresh: true };
              \* the re-login has assigned session already
              /\ job' = [job EXCEPT ![p].session =
                                       IF job[p].ctx = "relogin" THEN @ ELSE job[p].newSession,
                                    ![p].result.loginRefreshed = TRUE]
              /\ log' = [log EXCEPT ![p] =
                           Append(@, Event("store", job[p].newSession.sessionId, "", 0))]
    /\ UNCHANGED <<now, ticks, runs, nextSid, energy_readings, provisional, unit, firstRun>>

\* A listing step that re-logs in on every AuthError (not in cron.ts).
ListGatewaysRetriesAgain(p, resp) ==
    /\ pc[p] = "getGateways"
    /\ LET r == getGateways(resp)
           j == job[p]
       IN  /\ log' = [log EXCEPT ![p] =
                       Append(@, Event(IF r.throws THEN "list-failed" ELSE "list",
                                       j.session.sessionId, "",
                                       IF resp.threw THEN 0 ELSE resp.status))]
           /\ IF r.throws /\ r.auth
                THEN \* catch (error instanceof AuthError): re-login once
                     /\ pc' = [pc EXCEPT ![p] = "login"]
                     /\ job' = [job EXCEPT ![p].ctx = "relogin", ![p].retried = TRUE]
                ELSE IF r.throws
                THEN /\ pc' = [pc EXCEPT ![p] = "done"]
                     /\ job' = [job EXCEPT ![p] = JobFailed(@, r.error)]
                ELSE IF Len(r.value) = 0
                THEN /\ pc' = [pc EXCEPT ![p] = "done"]
                     /\ job' = [job EXCEPT ![p] = JobFailed(@, "No gateways found")]
                ELSE /\ pc' = [pc EXCEPT ![p] = "getEnergyData"]
                     /\ job' = [job EXCEPT
                                  ![p].gateways = r.value,
                                  ![p].i = 1,
                                  \* runDailyFetch: the date range, then midnightToday
                                  ![p].midnightToday =
                                     IF j.kind = "daily"
                                       THEN MidnightToday(TIMEZONE,
                                              getYesterdayDateRange(TIMEZONE, now).end)
                                       ELSE 0]
    /\ UNCHANGED <<now, ticks, runs, nextSid, sessions, energy_readings, provisional, unit, firstRun>>

\* A listing step without the test for an empty list: the loop runs over no
\* gateway (not in cron.ts).
ListGatewaysNoEmptyTest(p, resp) ==
    /\ pc[p] = "getGateways"
    /\ LET r == getGateways(resp)
           j == job[p]
       IN  /\ log' = [log EXCEPT ![p] =
                       Append(@, Event(IF r.throws THEN "list-failed" ELSE "list",
                                       j.session.sessionId, "",
                                       IF resp.threw THEN 0 ELSE resp.status))]
           /\ IF r.throws /\ r.auth /\ ~j.retried
                THEN \* catch (error instanceof AuthError): re-login once
                     /\ pc' = [pc EXCEPT ![p] = "login"]
                     /\ job' = [job EXCEPT ![p].ctx = "relogin", ![p].retried = TRUE]
                ELSE IF r.throws
                THEN /\ pc' = [pc EXCEPT ![p] = "done"]
                     /\ job' = [job EXCEPT ![p] = JobFailed(@, r.error)]
                ELSE IF Len(r.value) = 0
                THEN /\ pc' = [pc EXCEPT ![p] = "done"]
                     /\ job' = job
                ELSE /\ pc' = [pc EXCEPT ![p] = "getEnergyData"]
                     /\ job' = [job EXCEPT
                                  ![p].gateways = r.value,
                                  ![p].i = 1,
                                  \* runDailyFetch: the date range, then midnightToday
                                  ![p].midnightToday =
                                     IF j.kind = "daily"
                                       THEN MidnightToday(TIMEZONE,
                                              getYesterdayDateRange(TIMEZONE, now).end)
                                       ELSE 0]
    /\ UNCHANGED <<now, ticks, runs, nextSid, sessions, energy_readings, provisional, unit, firstRun>>

\* A listing that, when the vendor accepts the session, stores the session
\* row again with createdAt = Date.now(): a lifetime that slides with use (not
\* in cron.ts, auth.ts).
ListGatewaysRenews(p, resp) ==
    /\ pc[p] = "getGateways"
    /\ LET r == getGateways(resp)
           j == job[p]
       IN  /\ log' = [log EXCEPT ![p] =
                       Append(@, Event(IF r.throws THEN "list-failed" ELSE "list",
                                       j.session.sessionId, "",
                                       IF resp.threw THEN 0 ELSE resp.status))]
           /\ IF r.throws /\ r.auth /\ ~j.retried
                THEN \* catch (error instanceof AuthError): re-login once
                     /\ pc' = [pc EXCEPT ![p] = "login"]
                     /\ job' = [job EXCEPT ![p].ctx = "relogin", ![p].retried = TRUE]
                ELSE IF r.throws
                THEN /\ pc' = [pc EXCEPT ![p] = "done"]
                     /\ job' = [job EXCEPT ![p] = JobFailed(@, r.error)]
                ELSE IF Len(r.value) = 0
                THEN /\ pc' = [pc EXCEPT ![p] = "done"]
                     /\ job' = [job EXCEPT ![p] = JobFailed(@, "No gateways found")]
                ELSE /\ pc' = [pc EXCEPT ![p] = "getEnergyData"]
                     /\ job' = [job EXCEPT
                                  ![p].gateways = r.value,
                                  ![p].i = 1,
                                  \* runDailyFetch: the date range, then midnightToday
                                  ![p].midnightToday =
                                     IF j.kind = "daily"
                                       THEN MidnightToday(TIMEZONE,
                                              getYesterdayDateRange(TIMEZONE, now).end)
                                       ELSE 0]
    /\ sessions' = IF getGateways(resp).throws \/ sessions = {} THEN sessions
                   ELSE storeSession(sessions,
                          [getStoredSession(sessions) EXCEPT !.createdAt = now])
    /\ UNCHANGED <<now, ticks, runs, nextSid, energy_readings, provisional, unit, firstRun>>

\* await getGateways(session): the first call, or the one after the re-login.
ListGateways(p, resp) ==
    /\ pc[p] = "getGateways"
    /\ LET r == getGateways(resp)
           j == job[p]
       IN  /\ log' = [log EXCEPT ![p] =
                       Append(@, Event(IF r.throws THEN "list-failed" ELSE "list",
                                       j.session.sessionId, "",
                                       IF resp.threw THEN 0 ELSE resp.status))]
           /\ IF r.throws /\ r.auth /\ ~j.retried
                THEN \* catch (error instanceof AuthError): re-login once
                     /\ pc' = [pc EXCEPT ![p] = "login"]
                     /\ job' = [job EXCEPT ![p].ctx = "relogin", ![p].retried = TRUE]
                ELSE IF r.throws
                THEN /\ pc' = [pc EXCEPT ![p] = "done"]
                     /\ job' = [job EXCEPT ![p] = JobFailed(@, r.error)]
                ELSE IF Len(r.value) = 0
                THEN /\ pc' = [pc EXCEPT ![p] = "done"]
                     /\ job' = [job EXCEPT ![p] = JobFailed(@, "No gateways found")]
                ELSE /\ pc' = [pc EXCEPT ![p] = "getEnergyData"]
                     /\ job' = [job EXCEPT
                                  ![p].gateways = r.value,
                                  ![p].i = 1,
                                  \* runDailyFetch: the date range, then midnightToday
                                  ![p].midnightToday =
                                     IF j.kind = "daily"
                                       THEN MidnightToday(TIMEZONE,
                                              getYesterdayDateRange(TIMEZONE, now).end)
                                       ELSE 0]
    /\ UNCHANGED <<now, ticks, runs, nextSid, sessions, energy_readings, provisional, unit, firstRun>>

\* result.gateways.unshift(gwResult) (not in cron.ts).
PushResultFront(j, inserted, skipped, error) ==
    [j EXCEPT !.result.gateways =
                 <<[gwid |-> j.gateways[j.i], inserted |-> inserted,
                    skipped |-> skipped, error |-> error]>> \o @,
              !.result.success = IF error # "" THEN FALSE ELSE @,
              !.i = j.i + 1,
              !.readings = <<>>, !.yesterdayReadings = <<>>, !.todayReadings = <<>>,
              !.yesterdayResult = NoResult]

\* result.gateways.push(gwResult) and the next iteration of the loop.
PushResult(j, inserted, skipped, error) ==
    [j EXCEPT !.result.gateways =
                 Append(@, [gwid |-> j.gateways[j.i], inserted |-> inserted,
                            skipped |-> skipped, error |-> error]),
              !.result.success = IF error # "" THEN FALSE ELSE @,
              !.i = j.i + 1,
              !.readings = <<>>, !.yesterdayReadings = <<>>, !.todayReadings = <<>>,
              !.yesterdayResult = NoResult]

AfterPush(j) == IF j.i >= Len(j.gateways) THEN "done" ELSE "getEnergyData"

\* A fetch step whose failure ends the job (not in cron.ts).
FetchEnergyAborts(p, resp) ==
    /\ pc[p] = "getEnergyData"
    /\ LET r == getEnergyData(resp)
           j == job[p]
           gw == j.gateways[j.i]
       IN  /\ log' = [log EXCEPT ![p] =
                       Append(@, EventR(IF r.throws THEN "fetch-failed" ELSE "fetch",
                                        j.session.sessionId, gw, Len(r.value), r.value)
                                   @@ [shape |-> BodyShape(resp)])]
           /\ IF r.throws
                THEN /\ pc' = [pc EXCEPT ![p] = "done"]
                     /\ job' = [job EXCEPT ![p] = JobFailed(PushResult(j, 0, 0, r.error),
                                                           r.error)]
                ELSE IF Len(r.value) = 0
                THEN /\ pc' = [pc EXCEPT ![p] = AfterPush(j)]
                     /\ job' = [job EXCEPT ![p] = PushResult(j, 0, 0, "")]
                ELSE IF j.kind = "daily"
                THEN /\ pc' = [pc EXCEPT ![p] = "insertYesterday"]
                     /\ job' = [job EXCEPT
                                  ![p].yesterdayReadings =
                                     yesterdayReadings(r.value, j.midnightToday),
                                  ![p].todayReadings =
                                     todayReadings(r.value, j.midnightToday)]
                ELSE /\ pc' = [pc EXCEPT ![p] = "insertBackfill"]
                     /\ job' = [job EXCEPT ![p].readings = r.value]
    /\ UNCHANGED <<now, ticks, runs, nextSid, sessions, energy_readings, provisional, unit, firstRun>>

\* A fetch step that re-logs in on an AuthError (not in cron.ts).
FetchEnergyRelogin(p, resp) ==
    /\ pc[p] = "getEnergyData"
    /\ LET r == getEnergyData(resp)
           j == job[p]
           gw == j.gateways[j.i]
       IN  /\ log' = [log EXCEPT ![p] =
                       Append(@, EventR(IF r.throws THEN "fetch-failed" ELSE "fetch",
                                        j.session.sessionId, gw, Len(r.value), r.value)
                                   @@ [shape |-> BodyShape(resp)])]
           /\ IF r.throws /\ r.auth
                THEN /\ pc' = [pc EXCEPT ![p] = "login"]
                     /\ job' = [job EXCEPT ![p].ctx = "relogin"]
                ELSE IF r.throws
                THEN /\ pc' = [pc EXCEPT ![p] = AfterPush(j)]
                     /\ job' = [job EXCEPT ![p] = PushResult(j, 0, 0, r.error)]
                ELSE IF Len(r.value) = 0
                THEN /\ pc' = [pc EXCEPT ![p] = AfterPush(j)]
                     /\ job' = [job EXCEPT ![p] = PushResult(j, 0, 0, "")]
                ELSE IF j.kind = "daily"
                THEN /\ pc' = [pc EXCEPT ![p] = "insertYesterday"]
                     /\ job' = [job EXCEPT
                                  ![p].yesterdayReadings =
                                     yesterdayReadings(r.value, j.midnightToday),
                                  ![p].todayReadings =
                                     todayReadings(r.value, j.midnightToday)]
                ELSE /\ pc' = [pc EXCEPT ![p] = "insertBackfill"]
                     /\ job' = [job EXCEPT ![p].readings = r.value]
    /\ UNCHANGED <<now, ticks, runs, nextSid, sessions, energy_readings, provisional, unit, firstRun>>

\* await getEnergyData(session, gateway.gwid, ...), then the split.
FetchEnergy(p, resp) ==
    /\ pc[p] = "getEnergyData"
    /\ LET r == getEnergyData(resp)
           j == job[p]
           gw == j.gateways[j.i]
       IN  /\ log' = [log EXCEPT ![p] =
                       Append(@, EventR(IF r.throws THEN "fetch-failed" ELSE "fetch",
                                        j.session.sessionId, gw, Len(r.value), r.value)
                                   @@ [shape |-> BodyShape(resp)])]
           /\ IF r.throws
                THEN /\ pc' = [pc EXCEPT ![p] = AfterPush(j)]
                     /\ job' = [job EXCEPT ![p] = PushResult(j, 0, 0, r.error)]
                ELSE IF Len(r.value) = 0
                THEN /\ pc' = [pc EXCEPT ![p] = AfterPush(j)]
                     /\ job' = [job EXCEPT ![p] = PushResult(j, 0, 0, "")]
                ELSE IF j.kind = "daily"
                THEN /\ pc' = [pc EXCEPT ![p] = "insertYesterday"]
                     /\ job' = [job EXCEPT
                                  ![p].yesterdayReadings =
                                     yesterdayReadings(r.value, j.midnightToday),
                                  ![p].todayReadings =
                                     todayReadings(r.value, j.midnightToday)]
                ELSE /\ pc' = [pc EXCEPT ![p] = "insertBackfill"]
                     /\ job' = [job EXCEPT ![p].readings = r.value]
    /\ UNCHANGED <<now, ticks, runs, nextSid, sessions, energy_readings, provisional, unit, firstRun>>

\* await insertEnergyReadings(db, gateway.gwid, yesterdayReadings, false)
InsertYesterday(p, dbOk) ==
    /\ pc[p] = "insertYesterday"
    /\ LET j == job[p]
           gw == j.gateways[j.i]
           r == insertEnergyReadings(energy_readings, gw, j.yesterdayReadings)
       IN  \* an empty list returns before the batch
           IF ~dbOk /\ Len(j.yesterdayReadings) > 0
             THEN /\ pc' = [pc EXCEPT ![p] = AfterPush(j)]
                  /\ job' = [job EXCEPT ![p] = PushResult(j, 0, 0, "D1_ERROR")]
                  /\ log' = [log EXCEPT ![p] = Append(@, Event("insert-failed", 0, gw, 0))]
                  /\ UNCHANGED energy_readings
             ELSE /\ energy_readings' = r.table
                  /\ pc' = [pc EXCEPT ![p] = "insertToday"]
                  /\ job' = [job EXCEPT ![p].yesterdayResult =
                                          [inserted |-> r.inserted, skipped |-> r.skipped]]
                  /\ log' = [log EXCEPT ![p] =
                               Append(@, Event("insert", 0, gw, Len(j.yesterdayReadings)))]
    /\ UNCHANGED <<now, ticks, runs, nextSid, sessions, provisional, unit, firstRun>>

\* A today insert whose failure takes back the rows the yesterday insert of
\* the same gateway has written (not in cron.ts, db.ts).
InsertTodayRollsBack(p, dbOk) ==
    /\ pc[p] = "insertToday"
    /\ LET j == job[p]
           gw == j.gateways[j.i]
           r == insertEnergyReadings(energy_readings, gw, j.todayReadings)
       IN  IF ~dbOk /\ Len(j.todayReadings) > 0
             THEN /\ pc' = [pc EXCEPT ![p] = AfterPush(j)]
                  /\ job' = [job EXCEPT ![p] = PushResult(j, 0, 0, "D1_ERROR")]
                  /\ log' = [log EXCEPT ![p] = Append(@, Event("insert-failed", 0, gw, 0))]
                  /\ energy_readings' = energy_readings \
                        {Row(gw, j.yesterdayReadings[i]) : i \in DOMAIN j.yesterdayReadings}
                  /\ UNCHANGED provisional
             ELSE /\ energy_readings' = r.table
                  /\ provisional' = provisional \cup
                        {[gateway_id |-> row.gateway_id, timestamp |-> row.timestamp] :
                           row \in r.table \ energy_readings}
                  /\ pc' = [pc EXCEPT ![p] = AfterPush(j)]
                  /\ job' = [job EXCEPT ![p] =
                               PushResult(j, j.yesterdayResult.inserted + r.inserted,
                                          j.yesterdayResult.skipped + r.skipped, "")]
                  /\ log' = [log EXCEPT ![p] =
                               Append(@, Event("insert", 0, gw, Len(j.todayReadings)))]
    /\ UNCHANGED <<now, ticks, runs, nextSid, sessions, unit, firstRun>>

\* await insertEnergyReadings(db, gateway.gwid, todayReadings, true), then
\* the sums of the two results.
InsertToday(p, dbOk) ==
    /\ pc[p] = "insertToday"
    /\ LET j == job[p]
           gw == j.gateways[j.i]
           r == insertEnergyReadings(energy_readings, gw, j.todayReadings)
       IN  IF ~dbOk /\ Len(j.todayReadings) > 0
             THEN /\ pc' = [pc EXCEPT ![p] = AfterPush(j)]
                  /\ job' = [job EXCEPT ![p] = PushResult(j, 0, 0, "D1_ERROR")]
                  /\ log' = [log EXCEPT ![p] = Append(@, Event("insert-failed", 0, gw, 0))]
                  /\ UNCHANGED <<energy_readings, provisional>>
             ELSE /\ energy_readings' = r.table
                  /\ provisional' = provisional \cup
                        {[gateway_id |-> row.gateway_id, timestamp |-> row.timestamp] :
                           row \in r.table \ energy_readings}
                  /\ pc' = [pc EXCEPT ![p] = AfterPush(j)]
                  /\ job' = [job EXCEPT ![p] =
                               PushResult(j, j.yesterdayResult.inserted + r.inserted,
                                          j.yesterdayResult.skipped + r.skipped, "")]
                  /\ log' = [log EXCEPT ![p] =
                               Append(@, Event("insert", 0, gw, Len(j.todayReadings)))]
    /\ UNCHANGED <<now, ticks, runs, nextSid, sessions, unit, firstRun>>

\* backfillData: await insertEnergyReadings(db, gateway.gwid, readings, override)
InsertBackfill(p, dbOk) ==
    /\ pc[p] = "insertBackfill"
    /\ LET j == job[p]
           gw == j.gateways[j.i]
           r == insertEnergyReadings(energy_readings, gw, j.readings)
       IN  IF ~dbOk
             THEN /\ pc' = [pc EXCEPT ![p] = AfterPush(j)]
                  /\ job' = [job EXCEPT ![p] = PushResult(j, 0, 0, "D1_ERROR")]
                  /\ log' = [log EXCEPT ![p] = Append(@, Event("insert-failed", 0, gw, 0))]
                  /\ UNCHANGED energy_readings
             ELSE /\ energy_readings' = r.table
                  /\ pc' = [pc EXCEPT ![p] = AfterPush(j)]
                  /\ job' = [job EXCEPT ![p] = PushResult(j, r.inserted, r.skipped, "")]
                  /\ log' = [log EXCEPT ![p] =
                               Append(@, Event("insert", 0, gw, Len(j.readings)))]
    /\ UNCHANGED <<now, ticks, runs, nextSid, sessions, provisional, unit, firstRun>>

(***************************************************************************)
(* Specifications.  Spec runs job invocations one after another against a   *)
(* vendor that may answer every session and listing call in every way,     *)
(* with at most one gateway and small energy responses; SpecIngest runs    *)
(* them with every energy response of up to MaxReadings rows, one gateway  *)
(* per listing and a vendor that answers the session calls in two ways;    *)
(* SpecFanout lists two gateways; SpecRace runs two invocations            *)
(* concurrently.                                                           *)
(***************************************************************************)
\* The midnight the vendor's window is cut at: today's, in the job's zone.
VendorMidnight == MidnightToday(TIMEZONE, getYesterdayDateRange(TIMEZONE, now).end)

Running == {p \in Procs : pc[p] \notin {"idle", "done"}}

\* The clock is sampled between invocations: an invocation ends within the
\* platform's deadline, and within one invocation only login's createdAt, the
\* expiry test and the date range read it, each once.
Clock(steps) ==
    \E d \in steps : Running = {} /\ Tick(d)

StartStep(p) ==
    \E kind \in {"daily", "backfill"}, override \in BOOLEAN :
       (kind = "daily" => ~override) /\ Start(p, kind, override)

SmallEnergyResponses(midnight) ==
    [threw : {FALSE}, status : {200},
     body : {EnergyBody(<<>>), EnergyBody(<<[timestamp |-> midnight, total_power |-> 1]>>)}]
      \cup [threw : {FALSE}, status : {401, 500}, body : {OtherBody("invalid")}]

\* The listings of Spec: at most one gateway.
SmallGatewayResponses ==
    {LocationResponse(FALSE, 200, TRUE, h, f) : h \in BOOLEAN, f \in {<<>>, <<"gw1">>}}
      \cup LocationFailures

JobStep(p) ==
    \/ StartStep(p)
    \/ \E dbOk \in BOOLEAN : LoadSession(p, dbOk)
    \/ \E resp \in ProbeResponses : ValidateStored(p, resp)
    \/ \E resp \in LoginResponses : LoginPost(p, resp)
    \/ \E resp \in {r \in ProbeResponses : r.body.err = Absent} : LoginUserKey(p, resp)
    \/ \E dbOk \in BOOLEAN : StoreSession(p, dbOk)
    \/ \E resp \in SmallGatewayResponses : ListGateways(p, resp)
    \/ \E resp \in SmallEnergyResponses(VendorMidnight) : FetchEnergy(p, resp)
    \/ \E dbOk \in BOOLEAN : InsertYesterday(p, dbOk)
    \/ \E dbOk \in BOOLEAN : InsertToday(p, dbOk)
    \/ \E dbOk \in BOOLEAN : InsertBackfill(p, dbOk)

Next ==
    \/ Clock(ClockSteps)
    \/ JobStep("scheduled")

Spec == Init /\ [][Next]_vars

\* The vendor of SpecIngest.
IngestProbeResponses ==
    {r \in ProbeResponses : r.status = 200 /\ r.body.json = "object"
                               /\ (r.body.err = Absent <=> Truthy(r.body.keys["auk"]))}
IngestLoginResponses ==
    {r \in LoginResponses : r.setCookie = "sessionid" /\ r.status = 302}
IngestGatewayResponses ==
    {LocationResponse(FALSE, 200, TRUE, TRUE, f) : f \in {<<"gw1">>, <<"gw2">>}}

IngestStep(p) ==
    \/ StartStep(p)
    \/ LoadSession(p, TRUE)
    \/ \E resp \in IngestProbeResponses : ValidateStored(p, resp)
    \/ \E resp \in IngestLoginResponses : LoginPost(p, resp)
    \/ \E resp \in {r \in IngestProbeResponses : r.body.err = Absent} : LoginUserKey(p, resp)
    \/ StoreSession(p, TRUE)
    \/ \E resp \in IngestGatewayResponses : ListGateways(p, resp)
    \/ \E resp \in EnergyResponses(VendorMidnight) : FetchEnergy(p, resp)
    \/ \E dbOk \in BOOLEAN : InsertYesterday(p, dbOk)
    \/ \E dbOk \in BOOLEAN : InsertToday(p, dbOk)
    \/ \E dbOk \in BOOLEAN : InsertBackfill(p, dbOk)

NextIngest ==
    \/ Clock({SESSION_MAX_AGE_MS})
    \/ IngestStep("scheduled")

SpecIngest == Init /\ [][NextIngest]_vars

EarlierSession == [sessionId |-> 1, userKey |-> "uk1", createdAt |-> 0]

\* The state at a trigger: no session yet, or the session of an earlier
\* invocation.
InitRace ==
    /\ Init!1 /\ Init!2 /\ Init!3 /\ Init!6 /\ Init!7 /\ Init!8 /\ Init!9 /\ Init!10 /\ Init!12
    /\ Init!11 /\ Init!12
    /\ \/ sessions = {} /\ nextSid = 1
       \/ sessions = storeSession({}, EarlierSession) /\ nextSid = 2

\* SpecFanout: the vendor lists two gateways, in either order, or rejects the
\* listing with a 401; each energy call may fail or return a short or a
\* malformed body.
FanoutGatewayResponses ==
    {LocationResponse(FALSE, 200, TRUE, TRUE, f) : f \in {<<"gw1", "gw2">>, <<"gw2", "gw1">>}}
      \cup {LocationResponse(FALSE, 401, FALSE, FALSE, <<>>)}

FanoutEnergyResponses(midnight) ==
    [threw : {FALSE}, status : {200},
     body : {EnergyBody(<<>>), EnergyBody(<<[timestamp |-> midnight, total_power |-> 1]>>),
             EnergyBody(<<[timestamp |-> midnight - DAY_MS, total_power |-> 1],
                          [timestamp |-> midnight, total_power |-> 2]>>)}
              \cup MalformedBodies(midnight)]
      \cup [threw : {FALSE}, status : {401, 403, 500}, body : {OtherBody("invalid")}]
      \cup [threw : {TRUE}, status : {0}, body : {OtherBody("invalid")}]

FanoutStep(p) ==
    \/ runs < MaxFanoutRuns /\ StartStep(p)
    \/ LoadSession(p, TRUE)
    \/ \E resp \in IngestProbeResponses : ValidateStored(p, resp)
    \/ \E resp \in IngestLoginResponses : LoginPost(p, resp)
    \/ \E resp \in {r \in IngestProbeResponses : r.body.err = Absent} : LoginUserKey(p, resp)
    \/ StoreSession(p, TRUE)
    \/ \E resp \in FanoutGatewayResponses : ListGateways(p, resp)
    \/ \E resp \in FanoutEnergyResponses(VendorMidnight) : FetchEnergy(p, resp)
    \/ \E dbOk \in BOOLEAN : InsertYesterday(p, dbOk)
    \/ \E dbOk \in BOOLEAN : InsertToday(p, dbOk)
    \/ \E dbOk \in BOOLEAN : InsertBackfill(p, dbOk)

\* The invocations follow each other within the same day.
NextFanout == FanoutStep("scheduled")

SpecFanout == InitRace /\ [][NextFanout]_vars

\* SpecRace: the scheduled and the manual trigger run their invocations
\* concurrently, interleaved at the awaits.  A session stored by an earlier
\* invocation may be present at the start.
RaceGatewayResponses ==
    {LocationResponse(FALSE, 200, TRUE, TRUE, <<"gw1", "gw2">>),
     LocationResponse(FALSE, 401, FALSE, FALSE, <<>>)}

RaceEnergyResponses(midnight) ==
    [threw : {FALSE}, status : {200},
     body : {EnergyBody(<<[timestamp |-> midnight, total_power |-> 1]>>)}]
      \cup [threw : {FALSE}, status : {401}, body : {OtherBody("invalid")}]

RaceStep(p) ==
    \* each trigger fires once
    \/ pc[p] = "idle" /\ Start(p, "daily", FALSE)
    \/ LoadSession(p, TRUE)
    \/ \E resp \in IngestProbeResponses : ValidateStored(p, resp)
    \/ \E resp \in IngestLoginResponses : LoginPost(p, resp)
    \/ \E resp \in {r \in IngestProbeResponses : r.body.err = Absent} : LoginUserKey(p, resp)
    \/ StoreSession(p, TRUE)
    \/ \E resp \in RaceGatewayResponses : ListGateways(p, resp)
    \/ \E resp \in RaceEnergyResponses(VendorMidnight) : FetchEnergy(p, resp)
    \/ InsertYesterday(p, TRUE)
    \/ InsertToday(p, TRUE)

NextRace ==
    \/ Clock(ClockSteps)
    \/ RaceStep("scheduled")
    \/ RaceStep("manual")

SpecRace == InitRace /\ [][NextRace]_vars

\* SpecRefresh: invocations as in Spec, daily or backfill, with every answer of
\* the vendor and every database failure, on a store that holds no session or
\* the session of an earlier invocation; MaxFanoutRuns of them.
RefreshStep(p) ==
    \/ runs < MaxFanoutRuns /\ StartStep(p)
    \/ \E dbOk \in BOOLEAN : LoadSession(p, dbOk)
    \/ \E resp \in ProbeResponses : ValidateStored(p, resp)
    \/ \E resp \in LoginResponses : LoginPost(p, resp)
    \/ \E resp \in {r \in ProbeResponses : r.body.err = Absent} : LoginUserKey(p, resp)
    \/ \E dbOk \in BOOLEAN : StoreSession(p, dbOk)
    \/ \E resp \in SmallGatewayResponses : ListGateways(p, resp)
    \/ \E resp \in SmallEnergyResponses(VendorMidnight) : FetchEnergy(p, resp)
    \/ \E dbOk \in BOOLEAN : InsertYesterday(p, dbOk)
    \/ \E dbOk \in BOOLEAN : InsertToday(p, dbOk)
    \/ \E dbOk \in BOOLEAN : InsertBackfill(p, dbOk)

NextRefresh ==
    \/ Clock(ClockSteps)
    \/ RefreshStep("scheduled")

SpecRefresh == InitRace /\ [][NextRefresh]_vars

\* SpecLifetime: the store holds the session of an earlier invocation;
\* runDailyFetch runs and, after it has returned, runs once more, with the
\* clock advanced before and between the runs.  The vendor answers the probe,
\* the login and the listing in every way of SpecIngest and Spec, and sends no
\* readings.
LifetimeGatewayResponses ==
    {LocationResponse(FALSE, 200, TRUE, TRUE, <<"gw1">>),
     LocationResponse(FALSE, 401, FALSE, FALSE, <<>>)}

LifetimeEnergyResponses ==
    [threw : {FALSE}, status : {200}, body : {EnergyBody(<<>>)}]
      \cup [threw : {FALSE}, status : {500}, body : {OtherBody("invalid")}]

LifetimeStep(p) ==
    \/ pc[p] = "idle" /\ Start(p, "daily", FALSE)
    \/ RunAgain(p)
    \/ LoadSession(p, TRUE)
    \/ \E resp \in IngestProbeResponses : ValidateStored(p, resp)
    \/ \E resp \in LoginResponses : LoginPost(p, resp)
    \/ \E resp \in {r \in IngestProbeResponses : r.body.err = Absent} : LoginUserKey(p, resp)
    \/ \E dbOk \in BOOLEAN : StoreSession(p, dbOk)
    \/ \E resp \in LifetimeGatewayResponses : ListGateways(p, resp)
    \/ \E resp \in LifetimeEnergyResponses : FetchEnergy(p, resp)

NextLifetime ==
    \/ Clock(ClockSteps)
    \/ LifetimeStep("scheduled")

SpecLifetime == InitRace /\ [][NextLifetime]_vars

\* SpecRerun: runDailyFetch runs, returns, and runs once more, on the same day
\* or twelve hours later; the vendor lists one or two gateways and answers
\* each energy call with an error or with a window of no reading, of one
\* reading of today, of one of yesterday and one of today, or of two readings
\* with the same timestamp; an insert may fail.
RerunGatewayResponses ==
    {LocationResponse(FALSE, 200, TRUE, TRUE, f) : f \in {<<"gw1">>, <<"gw1", "gw2">>}}

RerunEnergyResponses(midnight) ==
    [threw : {FALSE}, status : {200},
     body : {EnergyBody(<<>>),
             EnergyBody(<<[timestamp |-> midnight, total_power |-> 1]>>),
             EnergyBody(<<[timestamp |-> midnight - DAY_MS, total_power |-> 1],
                          [timestamp |-> midnight, total_power |-> 2]>>),
             EnergyBody(<<[timestamp |-> midnight, total_power |-> 1],
                          [timestamp |-> midnight, total_power |-> 2]>>)}]
      \cup [threw : {FALSE}, status : {500}, body : {OtherBody("invalid")}]

RerunStep(p) ==
    \/ pc[p] = "idle" /\ Start(p, "daily", FALSE)
    \/ RunAgain(p)
    \/ LoadSession(p, TRUE)
    \/ \E resp \in IngestProbeResponses : ValidateStored(p, resp)
    \/ \E resp \in IngestLoginResponses : LoginPost(p, resp)
    \/ \E resp \in {r \in IngestProbeResponses : r.body.err = Absent} : LoginUserKey(p, resp)
    \/ StoreSession(p, TRUE)
    \/ \E resp \in RerunGatewayResponses : ListGateways(p, resp)
    \/ \E resp \in RerunEnergyResponses(VendorMidnight) : FetchEnergy(p, resp)
    \/ \E dbOk \in BOOLEAN : InsertYesterday(p, dbOk)
    \/ \E dbOk \in BOOLEAN : InsertToday(p, dbOk)

NextRerun ==
    \/ Clock({SESSION_MAX_AGE_MS})
    \/ RerunStep("scheduled")

SpecRerun == Init /\ [][NextRerun]_vars

(***************************************************************************)
(* Specifications of single calls of the pure functions.                   *)
(***************************************************************************)
UserKeyField == {UserKeyFields[i] : i \in 1..6}

\* isSessionExpired(session) at Date.now() = dateNow.
ExpiryAges ==
    {0, 1, SESSION_MAX_AGE_MS - 1, SESSION_MAX_AGE_MS, SESSION_MAX_AGE_MS + 1,
     2 * SESSION_MAX_AGE_MS}
InitExpiry ==
    /\ Init!1 /\ Init!2 /\ Init!3 /\ Init!4 /\ Init!5 /\ Init!6 /\ Init!7 /\ Init!8
    /\ Init!9 /\ Init!10 /\ Init!12
    /\ \E k \in 0..11, age \in ExpiryAges :
          unit = [fn |-> "isSessionExpired", createdAt |-> k * HOUR_MS,
                  dateNow |-> k * HOUR_MS + age, resp |-> <<>>, out |-> <<>>]

CallIsSessionExpired ==
    /\ unit.fn = "isSessionExpired"
    /\ unit.out = <<>>
    /\ unit' = [unit EXCEPT !.out =
                   <<isSessionExpired([sessionId |-> 1, userKey |-> "uk1",
                                       createdAt |-> unit.createdAt], unit.dateNow)>>]
    /\ UNCHANGED <<now, ticks, runs, nextSid, sessions, energy_readings, pc, job, log,
                   provisional, firstRun>>

SpecExpiry == InitExpiry /\ [][CallIsSessionExpired]_vars

\* validateSession(session) when the probe is answered by resp.
InitValidate ==
    /\ Init!1 /\ Init!2 /\ Init!3 /\ Init!4 /\ Init!5 /\ Init!6 /\ Init!7 /\ Init!8
    /\ Init!9 /\ Init!10 /\ Init!12
    /\ \E resp \in UserResponses :
          unit = [fn |-> "validateSession", createdAt |-> 0, dateNow |-> 0,
                  resp |-> <<resp>>, out |-> <<>>]

CallValidateSession ==
    /\ unit.fn = "validateSession"
    /\ unit.out = <<>>
    /\ unit' = [unit EXCEPT !.out = <<validateSession(unit.resp[1])>>]
    /\ UNCHANGED <<now, ticks, runs, nextSid, sessions, energy_readings, pc, job, log,
                   provisional, firstRun>>

SpecValidate == InitValidate /\ [][CallValidateSession]_vars

\* parseEnergyResponse(data) on a columnar body and on the same body with its
\* columns, and the values of every row, permuted alike.
ColumnNames == {"total_power", "other"}
SeqsUpTo(S, n) == UNION {[1..k -> S] : k \in 0..n}
Perms(n) == {f \in [1..n -> 1..n] : \A a, b \in 1..n : f[a] = f[b] => a = b}
\* The row with its values moved as the columns are; a place the row had no
\* value for holds null.
PermuteRow(row, perm) ==
    [i \in DOMAIN perm |-> IF perm[i] \in DOMAIN row THEN row[perm[i]] ELSE Null]
PermuteBody(body, perm) ==
    [body EXCEPT !.columns = Arr([i \in DOMAIN perm |-> body.columns.elems[perm[i]]]),
                 !.data = Arr([k \in DOMAIN body.data.elems |->
                                  PermuteRow(body.data.elems[k], perm)])]
ParseBodies ==
    [json : {"object"},
     columns : {Arr(c) : c \in SeqsUpTo(ColumnNames, MaxColumns)},
     index : {Arr(<<>>), Arr(<<10>>), Arr(<<10, 20>>)},
     data : {Arr(d) : d \in SeqsUpTo(SeqsUpTo({1, 2, Null}, MaxColumns), 2)}]

InitParse ==
    /\ Init!1 /\ Init!2 /\ Init!3 /\ Init!4 /\ Init!5 /\ Init!6 /\ Init!7 /\ Init!8
    /\ Init!9 /\ Init!10 /\ Init!12
    /\ \E body \in ParseBodies, perm \in UNION {Perms(n) : n \in 0..MaxColumns} :
          /\ DOMAIN perm = DOMAIN body.columns.elems
          /\ unit = [fn |-> "parseEnergyResponse", createdAt |-> 0, dateNow |-> 0,
                     resp |-> <<body, perm>>, out |-> <<>>]

CallParseEnergyResponse ==
    /\ unit.fn = "parseEnergyResponse"
    /\ unit.out = <<>>
    /\ unit' = [unit EXCEPT !.out =
                   <<parseEnergyResponse(unit.resp[1]),
                     parseEnergyResponse(PermuteBody(unit.resp[1], unit.resp[2]))>>]
    /\ UNCHANGED <<now, ticks, runs, nextSid, sessions, energy_readings, pc, job, log,
                   provisional, firstRun>>

SpecParse == InitParse /\ [][CallParseEnergyResponse]_vars

\* Single calls of the vendor client: getGateways on a location response and
\* getEnergyData on an energy response.
GwidVals == {Absent, "gw1", "gw2", NonString}
RECURSIVE JsonTrees(_)
JsonTrees(d) ==
    LET kids == IF d = 0 THEN {<<>>}
                ELSE {<<>>} \cup {<<t>> : t \in JsonTrees(d - 1)}
    IN  {JObj(g, k) : g \in GwidVals, k \in kids} \cup {JArr(k) : k \in kids}
\* The top-level gateways field: an array (empty, of gateway objects, with an
\* entry that has no gwid), or missing, or an object that is not an array.
GatewaysArrays ==
    {JArr(<<>>), JArr(GwObjects(<<"gw1">>)), JArr(GwObjects(<<"gw2", "gw1">>)),
     JArr(GwObjects(<<Absent, "gw1">>))}
GatewaysFields ==
    {[has |-> FALSE, val |-> JObj(Absent, <<>>)],
     [has |-> TRUE, val |-> JObj(Absent, <<JObj("gw2", <<>>)>>)]}
LocationBody(has, val, root) ==
    [threw |-> FALSE, status |-> 200, json |-> TRUE,
     gateways |-> val, hasGateways |-> has, root |-> root]
LocationBodies ==
    {LocationBody(TRUE, a, JObj(Absent, kids)) :
        a \in GatewaysArrays, kids \in {<<>>, <<JObj("gw2", <<>>)>>}}
      \cup {LocationBody(f.has, f.val, JObj(g, kids)) :
               f \in GatewaysFields, g \in {Absent, "gw1"},
               kids \in SeqsUpTo(JsonTrees(MaxDepth), 2)}

InitClient ==
    /\ Init!1 /\ Init!2 /\ Init!3 /\ Init!4 /\ Init!5 /\ Init!6 /\ Init!7 /\ Init!8
    /\ Init!9 /\ Init!10 /\ Init!12
    /\ \/ \E resp \in LocationBodies \cup LocationFailures :
             unit = [fn |-> "getGateways", createdAt |-> 0, dateNow |-> 0,
                     resp |-> <<resp>>, out |-> <<>>]
       \/ \E resp \in EnergyResponses(0) :
             unit = [fn |-> "getEnergyData", createdAt |-> 0, dateNow |-> 0,
                     resp |-> <<resp>>, out |-> <<>>]

CallGetGateways ==
    /\ unit.fn = "getGateways"
    /\ unit.out = <<>>
    /\ unit' = [unit EXCEPT !.out = <<getGateways(unit.resp[1])>>]
    /\ UNCHANGED <<now, ticks, runs, nextSid, sessions, energy_readings, pc, job, log,
                   provisional, firstRun>>

CallGetEnergyData ==
    /\ unit.fn = "getEnergyData"
    /\ unit.out = <<>>
    /\ unit' = [unit EXCEPT !.out = <<getEnergyData(unit.resp[1])>>]
    /\ UNCHANGED <<now, ticks, runs, nextSid, sessions, energy_readings, pc, job, log,
                   provisional, firstRun>>

NextClient == CallGetGateways \/ CallGetEnergyData

SpecClient == InitClient /\ [][NextClient]_vars

\* getUserKey(sessionId) and validateSession(session) answered by the same
\* response of GET /api.php/user, whose body is an object with any of the
\* user-key fields absent, empty or set to one of two keys.
UserKeyVals == {Absent, "", "uk1", "uk2"}
UserKeyResponses ==
    [threw : {FALSE}, status : {200},
     body : [json : {"object"}, err : {Absent},
             keys : [UserKeyField -> UserKeyVals]]]
      \cup {r \in UserResponses : r.body.keys = ProbeKeys("auk", Absent)}

InitUserKey ==
    /\ Init!1 /\ Init!2 /\ Init!3 /\ Init!4 /\ Init!5 /\ Init!6 /\ Init!7 /\ Init!8
    /\ Init!9 /\ Init!10 /\ Init!12
    /\ \E resp \in UserKeyResponses :
          unit = [fn |-> "getUserKey", createdAt |-> 0, dateNow |-> 0,
                  resp |-> <<resp>>, out |-> <<>>]

CallGetUserKey ==
    /\ unit.fn = "getUserKey"
    /\ unit.out = <<>>
    /\ unit' = [unit EXCEPT !.out = <<getUserKey(unit.resp[1]), validateSession(unit.resp[1])>>]
    /\ UNCHANGED <<now, ticks, runs, nextSid, sessions, energy_readings, pc, job, log,
                   provisional, firstRun>>

SpecUserKey == InitUserKey /\ [][CallGetUserKey]_vars

\* The HTTP entry point, for a request, the secrets of the environment and
\* the outcome of the job function the request leads to.
jsonResponse(data, status) == [status |-> status, body |-> data]
errorResponse(message, status) == jsonResponse([error |-> message], status)
\* new Response(null, { headers: corsHeaders })
PreflightResponse == [status |-> 200, body |-> <<>>]

\* A handler that answers a failed job with a 500 (not in index.ts).
handleManualCronFailureIs500(env, outcome) ==
    IF ~Truthy(env.GEOSTAR_EMAIL) \/ ~Truthy(env.GEOSTAR_PASSWORD)
      THEN errorResponse("Missing GEOSTAR_EMAIL or GEOSTAR_PASSWORD secrets", 500)
    ELSE IF outcome.throws THEN errorResponse(outcome.error, 500)
    ELSE IF ~outcome.value.success THEN errorResponse(outcome.value.error, 500)
    ELSE jsonResponse(outcome.value, 200)

handleManualCron(env, outcome) ==
    IF ~Truthy(env.GEOSTAR_EMAIL) \/ ~Truthy(env.GEOSTAR_PASSWORD)
      THEN errorResponse("Missing GEOSTAR_EMAIL or GEOSTAR_PASSWORD secrets", 500)
    ELSE IF outcome.throws THEN errorResponse(outcome.error, 500)
    ELSE jsonResponse(outcome.value, 200)

handleBackfill(env, outcome) ==
    IF ~Truthy(env.GEOSTAR_EMAIL) \/ ~Truthy(env.GEOSTAR_PASSWORD)
      THEN errorResponse("Missing GEOSTAR_EMAIL or GEOSTAR_PASSWORD secrets", 500)
    ELSE IF outcome.throws THEN errorResponse(outcome.error, 500)
    ELSE jsonResponse(outcome.value, 200)

\* handleRequest for the paths outside /api/ (the read API does not run a job).
handleRequest(request, env, outcome) ==
    IF request.method = "OPTIONS" THEN PreflightResponse
    ELSE IF request.path = "/__scheduled" \/ request.path = "/cron"
      THEN handleManualCron(env, outcome)
    ELSE IF request.path = "/backfill"
      THEN IF ~Truthy(request.start) \/ ~Truthy(request.end)
             THEN errorResponse("Missing start or end parameter (YYYY-MM-DD)", 400)
             ELSE handleBackfill(env, outcome)
    ELSE IF request.path = "/" THEN jsonResponse([name |-> "GeoStar Energy Dashboard"], 200)
    ELSE errorResponse("Not found", 404)

Requests ==
    [method : {"GET", "POST", "OPTIONS"},
     path : {"/cron", "/__scheduled", "/backfill", "/", "/other"},
     start : {Absent, "", "2024-01-01"}, end : {Absent, "", "2024-01-02"}]
Envs == [GEOSTAR_EMAIL : {Absent, "e"}, GEOSTAR_PASSWORD : {Absent, "", "p"}]
\* What the job function returns (a CronResult), or an exception it lets out.
CronResults ==
    {[success |-> TRUE, gateways |-> g, error |-> "", loginRefreshed |-> l] :
        g \in {<<[gwid |-> "gw1", inserted |-> 1, skipped |-> 0, error |-> ""]>>},
        l \in BOOLEAN}
      \cup {[success |-> FALSE, gateways |-> g, error |-> "", loginRefreshed |-> l] :
               g \in {<<[gwid |-> "gw1", inserted |-> 0, skipped |-> 0,
                         error |-> "Session expired"]>>},
               l \in BOOLEAN}
      \cup {[success |-> FALSE, gateways |-> <<>>, error |-> e, loginRefreshed |-> l] :
               e \in {"No gateways found", "Login failed: expected 302"}, l \in BOOLEAN}
JobOutcomes == {Returned(r) : r \in CronResults} \cup {Thrown("Cron error", <<>>)}

InitHttp ==
    /\ Init!1 /\ Init!2 /\ Init!3 /\ Init!4 /\ Init!5 /\ Init!6 /\ Init!7 /\ Init!8
    /\ Init!9 /\ Init!10 /\ Init!12
    /\ \E request \in Requests, env \in Envs, outcome \in JobOutcomes :
          unit = [fn |-> "handleRequest", createdAt |-> 0, dateNow |-> 0,
                  resp |-> <<request, env, outcome>>, out |-> <<>>]

CallHandleRequest ==
    /\ unit.fn = "handleRequest"
    /\ unit.out = <<>>
    /\ unit' = [unit EXCEPT !.out =
                   <<handleRequest(unit.resp[1], unit.resp[2], unit.resp[3])>>]
    /\ UNCHANGED <<now, ticks, runs, nextSid, sessions, energy_readings, pc, job, log,
                   provisional, firstRun>>

SpecHttp == InitHttp /\ [][CallHandleRequest]_vars

\* getYesterdayDateRange(timezone) at Date.now() = dateNow: every hour, and
\* the last millisecond of every hour, of the days around the two changes of
\* the offset and of a day far from them.
DateRangeDays == {0, 7, 8, 9, 14, 15, 16}
DateRangeInstants ==
    {d * DAY_MS + h * HOUR_MS + e : d \in DateRangeDays, h \in 0..23, e \in {0, HOUR_MS - 1}}
Timezones == {"America/Los_Angeles", "Asia/Kolkata", "UTC"}

InitDateRange ==
    /\ Init!1 /\ Init!2 /\ Init!3 /\ Init!4 /\ Init!5 /\ Init!6 /\ Init!7 /\ Init!8
    /\ Init!9 /\ Init!10 /\ Init!12
    /\ \E timezone \in Timezones, dateNow \in DateRangeInstants :
          unit = [fn |-> "getYesterdayDateRange", createdAt |-> 0, dateNow |-> dateNow,
                  resp |-> <<timezone>>, out |-> <<>>]

CallGetYesterdayDateRange ==
    /\ unit.fn = "getYesterdayDateRange"
    /\ unit.out = <<>>
    /\ unit' = [unit EXCEPT !.out = <<getYesterdayDateRange(unit.resp[1], unit.dateNow)>>]
    /\ UNCHANGED <<now, ticks, runs, nextSid, sessions, energy_readings, pc, job, log,
                   provisional, firstRun>>

SpecDateRange == InitDateRange /\ [][CallGetYesterdayDateRange]_vars

(***************************************************************************)
(* Claims.                                                                 *)
(***************************************************************************)
Last(seq) == seq[Len(seq)]
Range(seq) == {seq[i] : i \in DOMAIN seq}
IsFetch(e) == e.op \in {"fetch", "fetch-failed"}
\* The fetch of the k-th gateway of p's invocation.
FetchEvents(p) == SelectSeq(log[p], IsFetch)
HasKey(tbl, gw, ts) == \E row \in tbl : row.gateway_id = gw /\ row.timestamp = ts
StoredPower(tbl, gw, ts) ==
    (CHOOSE row \in tbl : row.gateway_id = gw /\ row.timestamp = ts).total_power

\* C1: in runDailyFetch every fetched reading is in exactly one of the two
\* partitions (timestamp < midnightToday: yesterday; timestamp >= midnightToday,
\* the boundary included: today), and once both inserts have returned the
\* gateway's inserted + skipped is the number of fetched readings.
C1_PartitionAndCounts ==
    \A p \in Procs :
      job[p].kind = "daily" =>
        /\ pc[p] \in {"insertYesterday", "insertToday"} =>
             LET rows == Last(FetchEvents(p)).rows
                 y == job[p].yesterdayReadings
                 t == job[p].todayReadings
                 m == job[p].midnightToday
             IN  /\ Len(y) + Len(t) = Len(rows)
                 /\ \A i \in DOMAIN rows :
                       /\ rows[i].timestamp < m =>
                            rows[i] \in Range(y) /\ rows[i] \notin Range(t)
                       /\ rows[i].timestamp >= m =>
                            rows[i] \in Range(t) /\ rows[i] \notin Range(y)
        /\ \A k \in DOMAIN job[p].result.gateways :
             LET g == job[p].result.gateways[k]
             IN  g.error = "" => g.inserted + g.skipped = Len(FetchEvents(p)[k].rows)

\* A daily run has fetched one reading before the boundary and one exactly at
\* it, and reports the two.
C1_Witness ==
    \E p \in Procs :
      /\ job[p].kind = "daily" /\ pc[p] = "done"
      /\ Len(job[p].result.gateways) = 1
      /\ LET g == job[p].result.gateways[1]
             rows == FetchEvents(p)[1].rows
         IN  /\ g.error = "" /\ g.inserted + g.skipped = 2
             /\ Len(rows) = 2
             /\ rows[1].timestamp < job[p].midnightToday
             /\ rows[2].timestamp = job[p].midnightToday

\* The insert steps that the callers run in skip mode (replace flag false).
SkipInsertYesterday(p) == pc[p] = "insertYesterday" /\ pc'[p] = "insertToday"
SkipInsertBackfill(p) ==
    /\ pc[p] = "insertBackfill" /\ ~job[p].override
    /\ Len(log'[p]) = Len(log[p]) + 1 /\ Last(log'[p]).op = "insert"
Dupes(batch, gw) ==
    Cardinality({i \in DOMAIN batch : HasKey(energy_readings, gw, batch[i].timestamp)})

\* C2: a skip-mode insert of a reading whose (gatewayId, timestamp) is already
\* stored changes no stored row, and the reading is counted as skipped: only
\* new rows count as inserted.
C2_SkipKeepsRow ==
    [][\A p \in Procs :
         LET gw == job[p].gateways[job[p].i]
         IN  /\ SkipInsertYesterday(p) =>
                  LET batch == job[p].yesterdayReadings
                      res == job'[p].yesterdayResult
                  IN  /\ \A row \in energy_readings : row \in energy_readings'
                      /\ res.inserted =
                           Cardinality(energy_readings') - Cardinality(energy_readings)
                      /\ res.skipped = Len(batch) - res.inserted
                      /\ res.skipped >= Dupes(batch, gw)
             /\ SkipInsertBackfill(p) =>
                  LET batch == job[p].readings
                      res == Last(job'[p].result.gateways)
                  IN  /\ \A row \in energy_readings : row \in energy_readings'
                      /\ res.inserted =
                           Cardinality(energy_readings') - Cardinality(energy_readings)
                      /\ res.skipped = Len(batch) - res.inserted
                      /\ res.skipped >= Dupes(batch, gw)]_vars

\* A second skip-mode backfill has fetched one reading whose key was stored
\* with another value: it is reported skipped and the first value is kept.
C2_Witness ==
    \E p \in Procs :
      /\ job[p].kind = "backfill" /\ ~job[p].override /\ pc[p] = "done"
      /\ runs = 2
      /\ Len(job[p].result.gateways) = 1
      /\ LET g == job[p].result.gateways[1]
             rows == FetchEvents(p)[1].rows
         IN  /\ g.error = "" /\ g.inserted = 0 /\ g.skipped = 1
             /\ Len(rows) = 1
             /\ HasKey(energy_readings, g.gwid, rows[1].timestamp)
             /\ StoredPower(energy_readings, g.gwid, rows[1].timestamp)
                  # rows[1].total_power

\* C3: after runDailyFetch has inserted a gateway's readings, every fetched
\* reading with timestamp >= midnightToday (inserted with the replace flag
\* true) is stored with the fetched values, also when its row existed before
\* with other values.
C3_TodayRowsHoldLatest ==
    \A p \in Procs :
      job[p].kind = "daily" =>
        \A k \in DOMAIN job[p].result.gateways :
          LET g == job[p].result.gateways[k]
              rows == FetchEvents(p)[k].rows
          IN  (g.error = "" /\ \A a, b \in DOMAIN rows :
                                 rows[a].timestamp = rows[b].timestamp => a = b) =>
                \A i \in DOMAIN rows :
                  rows[i].timestamp >= job[p].midnightToday =>
                    /\ HasKey(energy_readings, g.gwid, rows[i].timestamp)
                    /\ StoredPower(energy_readings, g.gwid, rows[i].timestamp)
                         = rows[i].total_power

AtGvsReturn(p) == pc[p] = "getGateways" /\ job[p].ctx = "getValidSession"
IsProbe(e) == e.op \in {"probe-ok", "probe-failed", "probe-threw"}
Count(seq, op) == Cardinality({k \in DOMAIN seq : seq[k].op = op})
\* The load found a stored session / found it expired (age read at the test).
LoadedStored(e) == e.op = "load" /\ e.sid # 0
LoadedExpired(e) == LoadedStored(e) /\ e.n > SESSION_MAX_AGE_MS

\* C5: every session getValidSession returns is the stored session, not
\* expired and probed successfully in this call (fresh = false), or the
\* session of a login of this call (fresh = true); a stored session that is
\* expired or failed the probe is never returned.
C5_NeverReturnsDeadSession ==
    \A p \in Procs :
      AtGvsReturn(p) =>
        LET j == job[p]
            L == log[p]
            fresh == j.result.loginRefreshed
        IN  /\ \/ /\ ~fresh
                  /\ j.session = j.storedSession
                  /\ LoadedStored(L[1]) /\ ~LoadedExpired(L[1])
                  /\ \E k \in DOMAIN L :
                        L[k].op = "probe-ok" /\ L[k].sid = j.session.sessionId
               \/ /\ fresh
                  /\ j.session.sessionId # 0
                  /\ j.session.sessionId # j.storedSession.sessionId
                  /\ \E k \in DOMAIN L :
                        L[k].op = "login-user" /\ L[k].sid = j.session.sessionId
            /\ j.session.sessionId = j.storedSession.sessionId =>
                 ~LoadedExpired(L[1]) /\ Count(L, "probe-failed") = 0

\* getValidSession has returned the stored session, 12 hours old, after a
\* successful probe.
C5_Witness ==
    \E p \in Procs :
      /\ AtGvsReturn(p) /\ ~job[p].result.loginRefreshed
      /\ job[p].session.sessionId = 1
      /\ log[p][1].n = SESSION_MAX_AGE_MS
      /\ log[p][2].op = "probe-ok"

\* C6: when the stored session is present, not expired and passes the probe,
\* getValidSession makes that one probe, no login and no write to the session
\* store, and returns that session with fresh = false.
C6_HealthySessionReused ==
    \A p \in Procs :
      LET j == job[p]
          L == log[p]
      IN  (Len(L) >= 2 /\ LoadedStored(L[1]) /\ ~LoadedExpired(L[1])
             /\ L[2].op = "probe-ok") =>
            /\ Len(L) = 2 => AtGvsReturn(p)
            /\ Len(L) >= 3 => L[3].op \in {"list", "list-failed"}
            /\ AtGvsReturn(p) =>
                  /\ Len(L) = 2
                  /\ ~j.result.loginRefreshed
                  /\ j.session = j.storedSession
                  /\ getStoredSession(sessions) = j.storedSession

\* A later invocation has reused the session stored by an earlier one, which
\* was created at another instant.
C6_Witness ==
    \E p \in Procs :
      /\ AtGvsReturn(p) /\ Len(log[p]) = 2 /\ log[p][2].op = "probe-ok"
      /\ job[p].session.sessionId = 1
      /\ now # job[p].session.createdAt
      /\ getStoredSession(sessions).createdAt = job[p].session.createdAt

\* C7: when there is no stored session, or it is expired, or it fails the
\* probe, getValidSession logs in exactly once, stores the new session before
\* it returns and returns it with fresh = true, so the stored session is the
\* returned one; an expired (or absent) stored session is never probed.
C7_UnusableSessionReplaced ==
    \A p \in Procs :
      LET j == job[p]
          L == log[p]
      IN  /\ (Len(L) >= 2 /\ L[1].op = "load"
                 /\ (~LoadedStored(L[1]) \/ LoadedExpired(L[1]))) =>
                \A k \in DOMAIN L : ~IsProbe(L[k])
          /\ (AtGvsReturn(p)
                 /\ (~LoadedStored(L[1]) \/ LoadedExpired(L[1])
                        \/ L[2].op = "probe-failed")) =>
                /\ j.result.loginRefreshed
                /\ Count(L, "login-post") = 1 /\ Count(L, "login-user") = 1
                /\ Count(L, "store") = 1
                /\ Last(L).op = "store" /\ Last(L).sid = j.session.sessionId
                /\ L[Len(L) - 1].op = "login-user"
                /\ L[Len(L) - 1].sid = j.session.sessionId
                /\ j.session.sessionId # 0
                /\ getStoredSession(sessions) = j.session

\* getValidSession has replaced an expired stored session without probing it.
C7_Witness ==
    \E p \in Procs :
      /\ AtGvsReturn(p) /\ job[p].result.loginRefreshed
      /\ LoadedExpired(log[p][1])
      /\ log[p][2].op = "login-post"
      /\ getStoredSession(sessions) = job[p].session
      /\ job[p].session.sessionId = 2

\* The stored session failed its probe and was replaced.
C7_WitnessProbeFailed ==
    \E p \in Procs :
      /\ AtGvsReturn(p) /\ job[p].result.loginRefreshed
      /\ log[p][2].op = "probe-failed"
      /\ getStoredSession(sessions) = job[p].session

\* The call of the pure function under test has returned.
Called(fn) == unit.fn = fn /\ unit.out # <<>>
UnitAge == unit.dateNow - unit.createdAt

C9_ValidateFalseNeverThrows ==
    Called("validateSession") =>
      LET resp == unit.resp[1]
          out == unit.out[1]
          noKey == \A f \in UserKeyField : resp.body.keys[f] = Absent
          errSet == resp.body.err \notin {Absent, ""}
      IN  /\ ~out.throws
          /\ out.value \in BOOLEAN
          /\ resp.threw => out.value = FALSE
          /\ (~resp.threw /\ ~ResponseOk(resp)) => out.value = FALSE
          /\ resp.body.json = "invalid" => out.value = FALSE
          /\ (resp.status = 200 /\ errSet) => out.value = FALSE
          /\ (resp.status = 200 /\ noKey) => out.value = FALSE
          /\ out.value = TRUE =>
                /\ ~resp.threw /\ ResponseOk(resp)
                /\ resp.body.json = "object"
                /\ ~errSet
                /\ ~noKey

\* validateSession has answered false to a 200 with {err: "session expired"}
\* that also carries a user key.
C9_Witness ==
    /\ Called("validateSession")
    /\ unit.resp[1].status = 200
    /\ unit.resp[1].body.err = "session expired"
    /\ unit.resp[1].body.keys["auk"] = "uk1"
    /\ unit.out[1] = Returned(FALSE)

\* A login attempt that the claim says fails: the POST is not answered by a
\* 302 with a sessionid cookie, or the user key is not resolved.
FailedLogin(e) ==
    \/ e.op = "login-post" /\ (e.n # 302 \/ e.gw # "sessionid")
    \/ e.op = "login-user" /\ getUserKey(e.rows[1]).throws

\* C10: a login whose POST response is not a 302, has no Set-Cookie header or
\* no sessionid in it, or whose user-key resolution fails, fails with an
\* error, and the getValidSession call or forced re-login it belongs to
\* persists nothing: the session store is as it was before that call or
\* re-login.
C10_FailedLoginPersistsNothing ==
    \A p \in Procs :
      LET j == job[p]
          L == log[p]
      IN  \A k \in DOMAIN L :
            FailedLogin(L[k]) =>
              /\ k = Len(L)
              /\ pc[p] = "done"
              /\ ~j.result.success /\ j.result.error # ""
              /\ j.result.error # "D1_ERROR"
              /\ getStoredSession(sessions) =
                    IF Count(L, "store") > 0 THEN j.newSession ELSE j.storedSession
              /\ j.ctx = "getValidSession" =>
                    Count(L, "store") = 0 /\ getStoredSession(sessions) = j.storedSession

\* A forced re-login has failed on a 200 to the POST while a session was
\* stored.
C10_Witness ==
    \E p \in Procs :
      /\ pc[p] = "done" /\ job[p].ctx = "relogin"
      /\ Last(log[p]).op = "login-post" /\ Last(log[p]).n = 200
      /\ Last(log[p]).gw = "sessionid"
      /\ sessions # {}

\* getValidSession has failed in the user-key resolution of its login while a
\* stored session was present.
C10_WitnessUserKey ==
    \E p \in Procs :
      /\ pc[p] = "done" /\ job[p].ctx = "getValidSession"
      /\ Len(log[p]) > 0
      /\ Last(log[p]).op = "login-user" /\ Last(log[p]).sid = 0
      /\ job[p].storedSession # NoSession
      /\ sessions # {}

IsList(e) == e.op \in {"list", "list-failed"}
\* getGateways threw an AuthError (401 or 403) / another error.
ListAuthError(e) == e.op = "list-failed" /\ e.n \in {401, 403}
ListOtherError(e) == e.op = "list-failed" /\ e.n \notin {401, 403}
ListIndexes(L) == {k \in DOMAIN L : IsList(L[k])}
FirstList(L) == CHOOSE k \in ListIndexes(L) : \A m \in ListIndexes(L) : k <= m
\* The job has ended with success = false and the job-level error set.
JobAborted(p) ==
    pc[p] = "done" /\ ~job[p].result.success /\ job[p].result.error # ""

\* C11: an AuthError of the first getGateways call is followed by exactly one
\* re-login (login, then storeSession) and exactly one more getGateways call;
\* when the re-login or that second call fails nothing more is tried and the
\* job ends with success = false and its error set; an error of getGateways
\* that is not an AuthError is followed by no login and ends the job.
C11_OneForcedRelogin ==
    \A p \in Procs :
      LET L == log[p]
          j == job[p]
      IN  ListIndexes(L) # {} =>
            LET k == FirstList(L)
                after == SubSeq(L, k + 1, Len(L))
            IN  /\ Cardinality(ListIndexes(L)) <= 2
                /\ Cardinality(ListIndexes(L)) = 2 => ListAuthError(L[k])
                /\ ListOtherError(L[k]) => k = Len(L) /\ JobAborted(p)
                /\ ListAuthError(L[k]) =>
                      /\ Count(after, "login-post") <= 1
                      /\ Count(after, "login-user") <= 1
                      /\ Count(after, "store") <= 1
                      /\ Len(after) = 0 => pc[p] = "login"
                      /\ Len(after) >= 1 => after[1].op = "login-post"
                      /\ Len(after) >= 2 => after[2].op = "login-user"
                      /\ Len(after) >= 3 => after[3].op = "store"
                      /\ Len(after) >= 4 => IsList(after[4])
                      /\ (Len(after) \in 1..3 /\ pc[p] = "done") => JobAborted(p)
                      /\ (Len(after) >= 4 /\ after[4].op = "list-failed") =>
                            Len(after) = 4 /\ JobAborted(p)
                      /\ (Len(after) = 3 /\ pc[p] # "done") =>
                            /\ pc[p] = "getGateways"
                            /\ getStoredSession(sessions) = j.session
                            /\ j.session.sessionId = after[2].sid

\* The first listing and the listing after the re-login both raised an
\* AuthError: the job has ended after one re-login.
C11_Witness ==
    \E p \in Procs :
      /\ JobAborted(p) /\ job[p].kind = "daily"
      /\ Cardinality(ListIndexes(log[p])) = 2
      /\ ListAuthError(Last(log[p]))
      /\ Count(log[p], "store") >= 1
      /\ job[p].result.error = "Session expired"

IsInsert(e) == e.op \in {"insert", "insert-failed"}
\* The events of p's invocation for gateway gw.
GatewayEvents(p, gw) == SelectSeq(log[p], LAMBDA e : (IsFetch(e) \/ IsInsert(e)) /\ e.gw = gw)
FailedFor(p, gw) ==
    \E k \in DOMAIN log[p] :
       log[p][k].op \in {"fetch-failed", "insert-failed"} /\ log[p][k].gw = gw

\* C12: a failure while fetching or inserting for one gateway is recorded as
\* the error of that gateway's result and sets success = false; the job-level
\* error stays unset and the job goes on: every listed gateway is fetched and
\* gets its result slot, and the readings of the gateways that did not fail
\* are stored.
C12_GatewayErrorsStayLocal ==
    \A p \in Procs :
      LET j == job[p]
          R == j.result.gateways
          F == FetchEvents(p)
      IN  /\ \A k \in DOMAIN R :
                LET g == R[k]
                IN  /\ g.gwid = j.gateways[k]
                    /\ F[k].gw = g.gwid
                    /\ FailedFor(p, g.gwid) <=> g.error # ""
                    /\ g.error # "" =>
                          /\ ~j.result.success
                          /\ j.result.error = ""
                          /\ g.inserted = 0 /\ g.skipped = 0
                    /\ g.error = "" =>
                          /\ g.inserted + g.skipped = Len(F[k].rows)
                          /\ \A i \in DOMAIN F[k].rows :
                                HasKey(energy_readings, g.gwid, F[k].rows[i].timestamp)
          /\ (pc[p] = "done" /\ Len(j.gateways) > 0) =>
                Len(R) = Len(j.gateways) /\ Len(F) = Len(j.gateways)
          /\ (pc[p] # "done" /\ Len(R) < Len(j.gateways)) =>
                pc[p] \in {"getEnergyData", "insertYesterday", "insertToday",
                           "insertBackfill"}

\* The fetch for the first gateway failed and the second gateway was still
\* fetched and its reading stored.
C12_Witness ==
    \E p \in Procs :
      /\ pc[p] = "done" /\ Len(job[p].result.gateways) = 2
      /\ LET R == job[p].result.gateways
         IN  /\ R[1].error # "" /\ R[1].inserted = 0
             /\ R[2].error = "" /\ R[2].inserted = 1
             /\ HasKey(energy_readings, R[2].gwid, job[p].midnightToday)
      /\ ~job[p].result.success /\ job[p].result.error = ""

\* Gateway A succeeded and gateway B's fetch threw: gateways[0] has the counts
\* and gateways[1] the error message.
C12_WitnessSecondFails ==
    \E p \in Procs :
      /\ pc[p] = "done" /\ Len(job[p].result.gateways) = 2
      /\ job[p].result.gateways[1].error = ""
      /\ job[p].result.gateways[1].inserted = 1
      /\ job[p].result.gateways[2].error = "fetch failed"
      /\ ~job[p].result.success

\* The invocation has fetched or inserted for some gateway.
TouchedReadings(p) == \E k \in DOMAIN log[p] : IsFetch(log[p][k]) \/ IsInsert(log[p][k])
\* getGateways has returned a non-empty list to the invocation.
Listed(p) == Len(job[p].gateways) > 0

\* C13: when session acquisition fails, when the listing fails (after the
\* one retry) or when the listing is empty, an empty gateways array from the
\* vendor included, the job returns success = false with the job-level error
\* set and an empty gateways list, and has fetched and inserted nothing.
C13_JobLevelErrorsAbort ==
    \A p \in Procs :
      LET j == job[p]
          L == log[p]
      IN  /\ (pc[p] = "done" /\ ~Listed(p)) =>
                /\ ~j.result.success
                /\ j.result.error # ""
                /\ j.result.gateways = <<>>
                /\ ~TouchedReadings(p)
          /\ (Len(L) > 0 /\ Last(L).op = "list" /\ ~Listed(p)) =>
                pc[p] = "done" /\ j.result.error = "No gateways found"
          /\ ~Listed(p) => ~TouchedReadings(p) /\ j.result.gateways = <<>>
          /\ (pc[p] = "done" /\ j.result.error # "") =>
                ~Listed(p) /\ ~j.result.success /\ j.result.gateways = <<>>
          /\ (pc[p] = "done" /\ Listed(p)) => j.result.error = ""

\* The vendor has answered the listing with an empty gateways array while
\* readings of an earlier run are stored: the job has ended with the
\* job-level error.
C13_Witness ==
    \E p \in Procs :
      /\ pc[p] = "done" /\ Len(log[p]) > 0
      /\ Last(log[p]).op = "list"
      /\ job[p].result.error = "No gateways found"
      /\ ~job[p].result.success /\ job[p].result.gateways = <<>>
      /\ energy_readings # {}

\* Session acquisition has failed.
C13_WitnessSession ==
    \E p \in Procs :
      /\ JobAborted(p) /\ Len(log[p]) > 0
      /\ Last(log[p]).op = "login-post"
      /\ job[p].ctx = "getValidSession"
      /\ job[p].result.gateways = <<>>

\* C14: after backfillData with override = true has inserted a gateway's
\* readings, every fetched reading is stored with the fetched values, also
\* when its row existed before with other values.
C14_OverrideStoresFetched ==
    \A p \in Procs :
      (job[p].kind = "backfill" /\ job[p].override) =>
        \A k \in DOMAIN job[p].result.gateways :
          LET g == job[p].result.gateways[k]
              rows == FetchEvents(p)[k].rows
          IN  (g.error = "" /\ \A a, b \in DOMAIN rows :
                                 rows[a].timestamp = rows[b].timestamp => a = b) =>
                \A i \in DOMAIN rows :
                  /\ HasKey(energy_readings, g.gwid, rows[i].timestamp)
                  /\ StoredPower(energy_readings, g.gwid, rows[i].timestamp)
                       = rows[i].total_power

\* The session of the login that p's invocation has just completed: the id
\* from the cookie, the user key resolved with it and Date.now() at its end.
SessionOfLogin(e) ==
    [sessionId |-> e.sid, userKey |-> getUserKey(e.rows[1]).value, createdAt |-> e.n]
SessionRow(session) ==
    [id |-> 1, session_id |-> session.sessionId, user_key |-> session.userKey,
     created_at |-> session.createdAt]
\* p writes the session store in this step.
StoreStepOf(p) == pc[p] = "storeSession" /\ pc'[p] = "getGateways"

\* C15: the session store holds at most one row, with id 1, and never loses
\* it once a login has been persisted; the store changes only in a
\* storeSession step, which leaves exactly the row of the session that the
\* login of that invocation produced: sessionId, userKey and createdAt of the
\* same login.
C15_SingleSessionRow ==
    /\ [](Cardinality(sessions) <= 1 /\ \A row \in sessions : row.id = 1)
    /\ [][/\ sessions # {} => sessions' # {}
          /\ \A p \in Procs :
                StoreStepOf(p) =>
                  /\ Last(log[p]).op = "login-user"
                  /\ Last(log[p]).sid # 0
                  /\ sessions' = {SessionRow(SessionOfLogin(Last(log[p])))}
          /\ sessions' # sessions => \E p \in Procs : StoreStepOf(p)]_vars

\* A second login has been persisted at a later instant: the store holds its
\* row alone.
C15_Witness ==
    /\ Cardinality(sessions) = 1
    /\ \E row \in sessions :
          row.session_id = 2 /\ row.created_at > 0 /\ row.user_key = "uk1"
    /\ \E p \in Procs : Len(log[p]) > 0 /\ Last(log[p]).op = "store"

\* getValidSession has returned to p's invocation (the job is at or past the
\* listing).
HasSession(p) ==
    \/ pc[p] \in {"getGateways", "getEnergyData", "insertYesterday", "insertToday",
                  "insertBackfill"}
    \/ pc[p] = "done" /\ \E k \in DOMAIN log[p] : IsList(log[p][k])
\* p obtained the session it holds itself: it probed it successfully or logged
\* in for it.
OwnSession(p) ==
    /\ job[p].session.sessionId # 0 /\ job[p].session.userKey # ""
    /\ \E k \in DOMAIN log[p] :
          \/ log[p][k].op = "probe-ok" /\ log[p][k].sid = job[p].session.sessionId
          \/ log[p][k].op = "login-user" /\ log[p][k].sid = job[p].session.sessionId
                /\ SessionOfLogin(log[p][k]) = job[p].session

\* C16: with two invocations running concurrently the session store always
\* holds at most one row, a complete session; every write is a storeSession
\* step that leaves exactly the writer's session, whatever the other wrote
\* before (the last writer wins); and each invocation goes on with the
\* session it validated or logged in for itself.
C16_LastWriterWins ==
    /\ [](/\ Cardinality(sessions) <= 1
          /\ \A row \in sessions : row.id = 1 /\ row.session_id # 0 /\ row.user_key # ""
          /\ \A p \in Procs : HasSession(p) => OwnSession(p))
    /\ [][/\ \A p \in Procs :
                StoreStepOf(p) => sessions' = {SessionRow(job[p].newSession)}
          /\ sessions' # sessions => \E p \in Procs : StoreStepOf(p)]_vars

\* Both invocations found no usable session, both logged in and both wrote
\* the store: it holds the session of the manual one, which wrote last, and
\* the scheduled one goes on with its own.
C16_Witness ==
    /\ HasSession("scheduled") /\ HasSession("manual")
    /\ job["scheduled"].result.loginRefreshed /\ job["manual"].result.loginRefreshed
    /\ job["scheduled"].ctx = "getValidSession" /\ job["manual"].ctx = "getValidSession"
    /\ job["scheduled"].session.sessionId > job["manual"].session.sessionId
    /\ getStoredSession(sessions) = job["manual"].session
    /\ job["scheduled"].storedSession = job["manual"].storedSession

GatewayIndex(p, gw) == CHOOSE k \in DOMAIN job[p].gateways : job[p].gateways[k] = gw
\* The fetches and inserts of p's invocation, in the order they completed.
GatewayWork(p) == SelectSeq(log[p], LAMBDA e : IsFetch(e) \/ IsInsert(e))

\* C18: within one invocation the gateways are processed one after the other
\* in the order getGateways returned them: the work for a gateway starts with
\* its fetch, the fetch for the next gateway comes after the fetch and the
\* inserts of the one before, while a gateway is in work the results of all
\* gateways before it are recorded, and result.gateways lists the results in
\* the listing's order.
C18_GatewaysInListingOrder ==
    \A p \in Procs :
      LET j == job[p]
          W == GatewayWork(p)
          R == j.result.gateways
      IN  /\ \A a, b \in DOMAIN W :
                a < b => GatewayIndex(p, W[a].gw) <= GatewayIndex(p, W[b].gw)
          /\ \A a \in DOMAIN W :
                IsFetch(W[a]) <=> (a = 1 \/ W[a - 1].gw # W[a].gw)
          /\ \A k \in DOMAIN R : R[k].gwid = j.gateways[k]
          /\ Len(R) <= Len(j.gateways)
          /\ pc[p] \in {"getEnergyData", "insertYesterday", "insertToday", "insertBackfill"} =>
                /\ Len(R) = j.i - 1
                /\ \A a \in DOMAIN W : GatewayIndex(p, W[a].gw) <= j.i
                /\ pc[p] = "getEnergyData" =>
                      \A a \in DOMAIN W : GatewayIndex(p, W[a].gw) < j.i
                /\ pc[p] # "getEnergyData" => Last(W).gw = j.gateways[j.i]

\* The vendor listed gw2 before gw1: both were fetched and inserted in that
\* order and the results are listed in that order.
C18_Witness ==
    \E p \in Procs :
      /\ pc[p] = "done" /\ job[p].gateways = <<"gw2", "gw1">>
      /\ Len(job[p].result.gateways) = 2
      /\ job[p].result.gateways[1].gwid = "gw2" /\ job[p].result.gateways[1].inserted = 1
      /\ job[p].result.gateways[2].gwid = "gw1" /\ job[p].result.gateways[2].inserted = 1
      /\ LET W == GatewayWork(p)
         IN  Len(W) >= 4 /\ W[1].gw = "gw2" /\ Last(W).gw = "gw1"

FetchIndexes(L) == {k \in DOMAIN L : IsFetch(L[k])}

\* C19: an AuthError of getEnergyData for a gateway is recorded in that
\* gateway's result only: it is followed by no login, no listing and no
\* second fetch for that gateway, the job-level error stays unset and the
\* other gateways are fetched with the same session; an invocation makes at
\* most two logins and at most two getGateways calls, all before its first
\* fetch.
C19_NoRetryInGatewayLoop ==
    \A p \in Procs :
      LET j == job[p]
          L == log[p]
          R == j.result.gateways
          F == FetchEvents(p)
      IN  /\ Count(L, "login-post") <= 2
          /\ Cardinality(ListIndexes(L)) <= 2
          /\ \A f \in FetchIndexes(L), k \in DOMAIN L :
                k > f => IsFetch(L[k]) \/ IsInsert(L[k])
          /\ \A a, b \in DOMAIN F : F[a].gw = F[b].gw => a = b
          /\ \A a \in DOMAIN F : F[a].sid = j.session.sessionId /\ F[a].sid # 0
          /\ \A k \in DOMAIN R :
                R[k].error = "Session expired" =>
                  /\ F[k].op = "fetch-failed" /\ F[k].gw = R[k].gwid
                  /\ R[k].inserted = 0 /\ R[k].skipped = 0
                  /\ j.result.error = "" /\ ~j.result.success
                  /\ k < Len(j.gateways) =>
                        \/ pc[p] = "getEnergyData" /\ Len(F) = k
                        \/ Len(F) > k /\ F[k + 1].gw = j.gateways[k + 1]
                  /\ k = Len(j.gateways) => pc[p] = "done"

\* After two logins (the first one and the forced re-login) the fetch for the
\* first gateway raised an AuthError; the second gateway has been fetched with
\* the same session and its reading stored.
C19_Witness ==
    \E p \in Procs :
      /\ pc[p] = "done" /\ Len(job[p].result.gateways) = 2
      /\ Count(log[p], "login-post") = 2
      /\ job[p].result.gateways[1].error = "Session expired"
      /\ job[p].result.gateways[2].error = ""
      /\ job[p].result.gateways[2].inserted = 1
      /\ FetchEvents(p)[1].sid = FetchEvents(p)[2].sid

\* The body fetched was a JSON object with columns, index or data missing or
\* not an array.
MalformedShape(e) ==
    IsFetch(e) /\ e.shape # <<>> /\ \E i \in 1..3 : e.shape[i] # "array"

\* C20: on an OK JSON body whose columns, index or data field is missing or
\* not an array getEnergyData returns the empty list and raises no error; the
\* job records inserted = 0, skipped = 0 and no error for that gateway and
\* makes no insert for it.
C20_MalformedBodyIsEmpty ==
    \A p \in Procs :
      LET j == job[p]
          F == FetchEvents(p)
          R == j.result.gateways
      IN  \A k \in DOMAIN F :
            MalformedShape(F[k]) =>
              /\ F[k].op = "fetch" /\ F[k].rows = <<>>
              /\ k \in DOMAIN R
              /\ R[k] = [gwid |-> F[k].gw, inserted |-> 0, skipped |-> 0, error |-> ""]
              /\ \A m \in DOMAIN log[p] : IsInsert(log[p][m]) => log[p][m].gw # F[k].gw
              /\ (k = Len(F) /\ IsFetch(Last(log[p]))) => pc[p] \in {"done", "getEnergyData"}

\* A daily run has fetched a body without the data field for the first
\* gateway: 0/0 and no error are recorded for it, and the second gateway's
\* reading is stored.
C20_Witness ==
    \E p \in Procs :
      /\ pc[p] = "done" /\ job[p].kind = "daily"
      /\ Len(FetchEvents(p)) = 2
      /\ FetchEvents(p)[1].shape = <<"array", "array", "missing">>
      /\ job[p].result.success
      /\ job[p].result.gateways[1] =
            [gwid |-> "gw1", inserted |-> 0, skipped |-> 0, error |-> ""]
      /\ job[p].result.gateways[2].inserted = 1
      /\ \A row \in energy_readings : row.gateway_id = "gw2"

\* The columns, index and rows of the body parsed, and the readings parsed
\* from it and from its permutation.
ParsedColumns == unit.resp[1].columns.elems
ParsedIndex == unit.resp[1].index.elems
ParsedRows == unit.resp[1].data.elems
DistinctNames(columns) ==
    \A a, b \in DOMAIN columns : columns[a] = columns[b] => a = b
\* One reading per index entry, with that entry as timestamp; the metric is
\* the row's value under the column of its name, and 0 when the column, the
\* row or the value is absent.
ReadingsByName ==
    LET out == unit.out[1]
    IN  /\ Len(out) = Len(ParsedIndex)
        /\ \A i \in DOMAIN out :
              /\ out[i].timestamp = ParsedIndex[i]
              /\ (\A c \in DOMAIN ParsedColumns : ParsedColumns[c] # "total_power") =>
                    out[i].total_power = 0
              /\ i \notin DOMAIN ParsedRows => out[i].total_power = 0
              /\ \A c \in DOMAIN ParsedColumns :
                    (/\ ParsedColumns[c] = "total_power"
                     /\ \A d \in DOMAIN ParsedColumns :
                           ParsedColumns[d] = "total_power" => d = c
                     /\ i \in DOMAIN ParsedRows) =>
                      out[i].total_power =
                        IF c \in DOMAIN ParsedRows[i] /\ ParsedRows[i][c] # Null
                          THEN ParsedRows[i][c] ELSE 0

\* C21 as the specification states it: permuting the columns together with
\* the values of every row yields the same readings, for every columns array.
C21_Original ==
    Called("parseEnergyResponse") =>
      unit.out[1] = unit.out[2] /\ ReadingsByName

\* C21: parseEnergyResponse looks the metric up by column name: when the
\* column names are distinct, permuting the columns together with the values
\* of every row yields the same readings; one reading is produced per index
\* entry with that entry as timestamp; a metric whose column is absent, whose
\* row is missing or whose row has no value at the column is 0.
C21_Amended ==
    Called("parseEnergyResponse") =>
      /\ DistinctNames(ParsedColumns) => unit.out[1] = unit.out[2]
      /\ ReadingsByName

\* The metric stood in the second column and in the first after the
\* permutation; both parses read its value 2, and 0 for the row without it.
C21_Witness ==
    /\ Called("parseEnergyResponse")
    /\ ParsedColumns = <<"other", "total_power">>
    /\ unit.resp[2] = <<2, 1>>
    /\ ParsedIndex = <<10, 20>>
    /\ ParsedRows = <<<<1, 2>>, <<1>>>>
    /\ unit.out[1] = <<[timestamp |-> 10, total_power |-> 2],
                       [timestamp |-> 20, total_power |-> 0]>>
    /\ unit.out[2] = unit.out[1]

\* The objects of a JSON value, by the path of entry positions that leads to
\* them from the top.
RECURSIVE PathsOf(_)
PathsOf(t) ==
    {<<>>} \cup UNION {{<<i>> \o q : q \in PathsOf(t.kids[i])} : i \in DOMAIN t.kids}
RECURSIVE NodeAt(_, _)
NodeAt(t, path) == IF path = <<>> THEN t ELSE NodeAt(t.kids[path[1]], Tail(path))
\* The paths to the objects, at any depth, that have a string gwid.
GwidPaths(t) ==
    {path \in PathsOf(t) :
        /\ NodeAt(t, path).kind = "object"
        /\ NodeAt(t, path).gwid \in {"gw1", "gw2"}}
HasGatewaysArray(resp) == resp.hasGateways /\ resp.gateways.kind = "array"
OkJson(resp) == ~resp.threw /\ ResponseOk(resp) /\ resp.json

\* C22: on an OK JSON response with a top-level gateways array getGateways
\* returns the entries of that array, one gateway per entry in order; without
\* one it returns one gateway for every object, at any depth, that has a
\* string gwid, and it throws an error (not an AuthError) exactly when there
\* is no such object.
C22_GatewaysArrayOrDeepSearch ==
    (Called("getGateways") /\ OkJson(unit.resp[1])) =>
      LET resp == unit.resp[1]
          out == unit.out[1]
          hits == GwidPaths(LocationData(resp))
      IN  /\ HasGatewaysArray(resp) =>
                /\ ~out.throws
                /\ Len(out.value) = Len(resp.gateways.kids)
                /\ \A i \in DOMAIN out.value : out.value[i] = resp.gateways.kids[i].gwid
          /\ ~HasGatewaysArray(resp) =>
                /\ out.throws <=> hits = {}
                /\ out.throws => ~out.auth
                /\ ~out.throws =>
                      /\ Len(out.value) = Cardinality(hits)
                      /\ \A g \in {"gw1", "gw2"} :
                            Cardinality({i \in DOMAIN out.value : out.value[i] = g}) =
                              Cardinality({path \in hits :
                                              NodeAt(LocationData(resp), path).gwid = g})

\* Without a gateways array, getGateways has returned the gateway of an
\* object two levels below the top-level object, next to an object whose
\* gwid is not a string.
C22_Witness ==
    /\ Called("getGateways") /\ OkJson(unit.resp[1])
    /\ ~unit.resp[1].hasGateways
    /\ unit.resp[1].root =
          JObj(Absent, <<JObj(NonString, <<>>), JArr(<<JObj("gw2", <<>>)>>)>>)
    /\ unit.out[1] = Returned(<<"gw2">>)

\* The top-level gateways array is empty while a nested object has a gwid:
\* the empty list is returned.
C22_WitnessEmptyArray ==
    /\ Called("getGateways") /\ OkJson(unit.resp[1])
    /\ HasGatewaysArray(unit.resp[1]) /\ unit.resp[1].gateways.kids = <<>>
    /\ unit.resp[1].root.kids # <<>>
    /\ unit.out[1] = Returned(<<>>)

\* The vendor answered the call with HTTP 401 or 403.
Unauthorized(resp) == ~resp.threw /\ resp.status \in {401, 403}

\* C23: getGateways and getEnergyData throw an AuthError exactly when the
\* vendor answers with HTTP 401 or 403; a network failure, another non-OK
\* status, a body that is not JSON and a location body without any gateway
\* make them throw an error that is not an AuthError.
C23_AuthErrorOnlyOn401And403 ==
    (Called("getGateways") \/ Called("getEnergyData")) =>
      LET resp == unit.resp[1]
          out == unit.out[1]
      IN  /\ out.auth <=> Unauthorized(resp)
          /\ out.auth => out.throws /\ out.error = "Session expired"
          /\ (resp.threw \/ (~ResponseOk(resp) /\ ~Unauthorized(resp))) =>
                out.throws /\ ~out.auth
          /\ (Called("getGateways") /\ ~resp.threw /\ ResponseOk(resp) /\ ~resp.json) =>
                out.throws /\ ~out.auth
          /\ (Called("getEnergyData") /\ ~resp.threw /\ ResponseOk(resp)
                 /\ resp.body.json = "invalid") =>
                out.throws /\ ~out.auth
          /\ (Called("getGateways") /\ OkJson(resp) /\ ~HasGatewaysArray(resp)
                 /\ GwidPaths(LocationData(resp)) = {}) =>
                out.throws /\ ~out.auth

\* getEnergyData has thrown an AuthError on a 403.
C23_Witness ==
    /\ Called("getEnergyData")
    /\ unit.resp[1].status = 403
    /\ unit.out[1].throws /\ unit.out[1].auth

\* getGateways has thrown a generic error on a 500.
C23_WitnessGeneric ==
    /\ Called("getGateways")
    /\ unit.resp[1].status = 500
    /\ unit.out[1].throws /\ ~unit.out[1].auth

\* The positions, in the probing order, of the user-key fields the body has
\* / has with a non-empty value.
PresentKeys(resp) == {i \in 1..6 : resp.body.keys[UserKeyFields[i]] # Absent}
TruthyKeys(resp) == {i \in 1..6 : Truthy(resp.body.keys[UserKeyFields[i]])}
FirstOf(S) == CHOOSE i \in S : \A k \in S : i <= k
\* The response is OK and its body an object without an err.
UserObject(resp) ==
    ~resp.threw /\ ResponseOk(resp) /\ resp.body.json = "object" /\ ~Truthy(resp.body.err)

\* C24 as the specification states it: the user key is the value of the first
\* field of the list that is present, and the resolution fails only when none
\* of the fields is present.
C24_Original ==
    (Called("getUserKey") /\ UserObject(unit.resp[1])) =>
      LET resp == unit.resp[1]
          out == unit.out[1]
      IN  /\ out.throws <=> PresentKeys(resp) = {}
          /\ ~out.throws =>
                out.value = resp.body.keys[UserKeyFields[FirstOf(PresentKeys(resp))]]
          /\ unit.out[2].value <=> ~out.throws

\* C24: the user key is the value of the first field of the list awlUserKey,
\* awluserkey, auk, id, user_id, userId that has a non-empty (truthy) value;
\* a field that is present but empty is passed over, and the resolution fails
\* exactly when no field has a non-empty value.  validateSession accepts the
\* body exactly when getUserKey resolves a key from it.
C24_Amended ==
    (Called("getUserKey") /\ UserObject(unit.resp[1])) =>
      LET resp == unit.resp[1]
          out == unit.out[1]
      IN  /\ out.throws <=> TruthyKeys(resp) = {}
          /\ out.throws => ~out.auth
          /\ ~out.throws =>
                out.value = resp.body.keys[UserKeyFields[FirstOf(TruthyKeys(resp))]]
          /\ unit.out[2] = Returned(~out.throws)

\* The body has awluserkey empty, id = uk2 and userId = uk1: the key resolved
\* is uk2 and validateSession accepts the body.
C24_Witness ==
    /\ Called("getUserKey") /\ UserObject(unit.resp[1])
    /\ unit.resp[1].body.keys =
          [f \in UserKeyField |-> CASE f = "awluserkey" -> ""
                                    [] f = "id" -> "uk2"
                                    [] f = "userId" -> "uk1"
                                    [] OTHER -> Absent]
    /\ unit.out[1] = Returned("uk2")
    /\ unit.out[2] = Returned(TRUE)

\* The request, environment and job outcome of the call, and its response.
HttpRequest == unit.resp[1]
HttpEnv == unit.resp[2]
HttpOutcome == unit.resp[3]
JobEndpoint(request) == request.path \in {"/cron", "/__scheduled", "/backfill"}
MissingParam(request) ==
    request.path = "/backfill" /\ (request.start \in {Absent, ""} \/ request.end \in {Absent, ""})
MissingSecrets(env) ==
    env.GEOSTAR_EMAIL \in {Absent, ""} \/ env.GEOSTAR_PASSWORD \in {Absent, ""}
\* The three answers the specification names.
NamedAnswers ==
    LET out == unit.out[1]
    IN  /\ MissingParam(HttpRequest) => out.status = 400
        /\ (~MissingParam(HttpRequest) /\ HttpOutcome.throws) =>
              out = [status |-> 500, body |-> [error |-> HttpOutcome.error]]
        /\ (~MissingParam(HttpRequest) /\ ~HttpOutcome.throws) =>
              out = [status |-> 200, body |-> HttpOutcome.value]

CallsAfter(L, k) ==
    SelectSeq(SubSeq(L, k + 1, Len(L)), LAMBDA e : IsList(e) \/ IsFetch(e))

\* C26: after the AuthError of the first listing and the re-login, the new
\* session is in the session store before the listing is retried, the retried
\* listing and every later getEnergyData call of the run carry the new
\* session's id, and the session that raised the AuthError is used by no
\* later call of the run.
C26_ReloginSessionUsed ==
    \A p \in Procs :
      LET L == log[p]
          j == job[p]
      IN  (ListIndexes(L) # {} /\ ListAuthError(L[FirstList(L)])) =>
            LET k == FirstList(L)
                old == L[k].sid
                calls == CallsAfter(L, k)
            IN  /\ \A m \in DOMAIN L :
                      (m > k /\ (IsList(L[m]) \/ IsFetch(L[m]))) =>
                        /\ L[m].sid # old
                        /\ L[m].sid = j.newSession.sessionId
                        /\ \E s \in (k + 1)..(m - 1) :
                              L[s].op = "store" /\ L[s].sid = L[m].sid
                /\ Len(calls) > 0 =>
                      /\ IsList(calls[1])
                      /\ j.session = j.newSession
                      /\ getStoredSession(sessions) = j.newSession
                /\ (pc[p] = "getGateways" /\ Len(L) > k) =>
                      /\ Last(L).op = "store"
                      /\ getStoredSession(sessions) = j.session
                      /\ j.session.sessionId # old

\* The stored session raised an AuthError at the listing; after the re-login
\* the listing and the fetches for both gateways were made with the new
\* session, which is the stored one.
C26_Witness ==
    \E p \in Procs :
      /\ pc[p] = "done" /\ Len(log[p]) > 0
      /\ ListIndexes(log[p]) # {} /\ ListAuthError(log[p][FirstList(log[p])])
      /\ log[p][FirstList(log[p])].sid = 1
      /\ Len(FetchEvents(p)) = 2
      /\ \A a \in 1..2 : FetchEvents(p)[a].sid = 2 /\ FetchEvents(p)[a].op = "fetch"
      /\ getStoredSession(sessions).sessionId = 2
      /\ job[p].result.loginRefreshed

\* C27: at every instant and in every timezone, the days on which the
\* offset changes included, getYesterdayDateRange returns end = the civil date
\* of the instant in the timezone and start = the civil date before it, so
\* start and end differ.
C27_StartIsDayBeforeEnd ==
    Called("getYesterdayDateRange") =>
      LET range == unit.out[1]
      IN  /\ range.end = FormatDate(unit.resp[1], unit.dateNow)
          /\ range.start = range.end - 1
          /\ range.start # range.end

\* C28: in the result of runDailyFetch and backfillData, loginRefreshed is
\* true exactly when the invocation has persisted a new session to the session
\* store, by the fresh login of getValidSession or by the forced re-login; with
\* no other invocation at work the row of the store is then the session it
\* persisted last.
C28_LoginRefreshedIffPersisted ==
    \A p \in Procs :
       pc[p] # "idle" =>
         LET stores == SelectSeq(log[p], LAMBDA e : e.op = "store")
         IN  /\ job[p].result.loginRefreshed <=> Len(stores) > 0
             /\ (job[p].result.loginRefreshed /\ \A q \in Procs \ {p} : pc[q] = "idle") =>
                   getStoredSession(sessions).sessionId = stores[Len(stores)].sid

\* A finished invocation whose stored session passed the probe, whose listing
\* was rejected, and whose re-login was persisted: loginRefreshed is true.
C28_Witness ==
    \E p \in Procs :
       /\ pc[p] = "done"
       /\ Count(log[p], "probe-ok") = 1
       /\ Count(log[p], "store") = 1
       /\ job[p].retried
       /\ job[p].result.loginRefreshed

\* A finished invocation that listed the gateways with the stored session and
\* persisted nothing: loginRefreshed is false.
C28_WitnessNotRefreshed ==
    \E p \in Procs :
       /\ pc[p] = "done"
       /\ Count(log[p], "list") = 1
       /\ Count(log[p], "store") = 0
       /\ ~job[p].result.loginRefreshed

\* C29: in every result returned by runDailyFetch and backfillData, success
\* is true exactly when the job-level error is unset and no gateway result
\* carries an error; with the job-level error set the gateways list is empty,
\* and otherwise it has one entry per gateway the listing returned, in the
\* listing's order.
C29_SuccessIffNoError ==
    \A p \in Procs :
       pc[p] = "done" =>
         LET result == job[p].result
             listed == job[p].gateways
         IN  /\ result.success <=>
                   /\ result.error = ""
                   /\ \A k \in DOMAIN result.gateways : result.gateways[k].error = ""
             /\ result.error # "" => result.gateways = <<>>
             /\ result.error = "" =>
                   /\ Len(result.gateways) = Len(listed)
                   /\ Len(listed) > 0
                   /\ \A k \in DOMAIN listed : result.gateways[k].gwid = listed[k]

\* Two results: one with an entry for each of two listed gateways, the second
\* with an error, and success false without a job-level error.
C29_Witness ==
    \E p \in Procs :
       /\ pc[p] = "done"
       /\ Len(job[p].gateways) = 2 /\ Len(job[p].result.gateways) = 2
       /\ job[p].result.error = ""
       /\ job[p].result.gateways[1].error = ""
       /\ job[p].result.gateways[2].error # ""
       /\ ~job[p].result.success

\* A result with success true and an entry for each of two gateways.
C29_WitnessSuccess ==
    \E p \in Procs :
       /\ pc[p] = "done"
       /\ Len(job[p].result.gateways) = 2
       /\ job[p].result.success

\* A result with the job-level error set.
C29_WitnessJobError ==
    \E p \in Procs :
       /\ pc[p] = "done"
       /\ job[p].result.error # ""
       /\ ~job[p].result.success /\ job[p].result.gateways = <<>>

\* What the vendor gave an invocation: the gateway and the readings of each
\* energy call, in order.
VendorData(history) ==
    LET F == SelectSeq(history, IsFetch)
    IN  [k \in DOMAIN F |-> <<F[k].gw, F[k].op, F[k].rows>>]

\* runDailyFetch has run a second time and returned, against the vendor data
\* of the first run: the same gateways, the same readings, the same boundary.
RanAgainOnSameData(p) ==
    /\ firstRun.done /\ pc[p] = "done"
    /\ job[p].gateways = firstRun.job.gateways
    /\ VendorData(log[p]) = VendorData(firstRun.log)
    /\ job[p].midnightToday = firstRun.job.midnightToday

\* The first run's result for gateway gw carries an error.
FirstRunFailedFor(gw) ==
    \E k \in DOMAIN firstRun.job.result.gateways :
       /\ firstRun.job.result.gateways[k].gwid = gw
       /\ firstRun.job.result.gateways[k].error # ""

C31_NoRollbackAndZeroCounts ==
    \A p \in Procs :
       \A k \in DOMAIN job[p].result.gateways :
          LET g == job[p].result.gateways[k]
              E == GatewayEvents(p, g.gwid)
              rows == FetchEvents(p)[k].rows
          IN  /\ g.error # "" => g.inserted = 0 /\ g.skipped = 0
              /\ (job[p].kind = "daily" /\ Len(E) = 3 /\ E[2].op = "insert"
                     /\ E[3].op = "insert-failed") =>
                    /\ g.error # "" /\ g.inserted = 0 /\ g.skipped = 0
                    /\ \A i \in DOMAIN rows :
                          rows[i].timestamp < job[p].midnightToday =>
                            \E row \in energy_readings :
                               /\ row.gateway_id = g.gwid
                               /\ row.timestamp = rows[i].timestamp

\* On an empty store the insert of a gateway's reading of yesterday has
\* succeeded and the insert of its reading of today has failed: the row of
\* yesterday is the only row stored, and the result has the error and no
\* counts.
C31_Witness ==
    \E p \in Procs :
       /\ ~firstRun.done /\ pc[p] = "done"
       /\ Len(job[p].result.gateways) = 1
       /\ LET g == job[p].result.gateways[1]
              E == GatewayEvents(p, g.gwid)
          IN  /\ Len(E) = 3 /\ E[2].op = "insert" /\ E[2].n = 1
              /\ E[3].op = "insert-failed"
              /\ g.error = "D1_ERROR" /\ g.inserted = 0 /\ g.skipped = 0
              /\ energy_readings =
                    {[gateway_id |-> g.gwid,
                      timestamp |-> job[p].midnightToday - DAY_MS, total_power |-> 1]}

\* The invocation has loaded a stored session that is older than 12 hours.
LoadedOld(p) ==
    /\ Len(log[p]) >= 1 /\ log[p][1].op = "load"
    /\ job[p].storedSession # NoSession
    /\ log[p][1].n > SESSION_MAX_AGE_MS

\* The history shows a use of session sid: a probe, a listing or an energy
\* call made with it.
UsesOf(history, sid) ==
    {k \in DOMAIN history :
        /\ history[k].op \in {"probe-ok", "probe-failed", "probe-threw", "list",
                               "list-failed", "fetch", "fetch-failed"}
        /\ history[k].sid = sid}

\* C32: a successful validation never extends a session's lifetime.  The row
\* of the session store changes only when a login is persisted, and then its
\* createdAt is the instant of that login; a getValidSession call that finds
\* the stored session older than 12 hours neither probes nor uses it and logs
\* in afresh, and the session it stores is a new one created at the instant
\* of the call, however often the old one was validated and used before.
C32_ValidationNeverExtends ==
    /\ [][sessions' # sessions =>
            \E p \in Procs :
               /\ pc[p] = "storeSession"
               /\ getStoredSession(sessions') = job[p].newSession
               /\ job[p].newSession.createdAt = now
               /\ job[p].newSession.sessionId # getStoredSession(sessions).sessionId]_vars
    /\ [](\A p \in Procs :
            LoadedOld(p) =>
              /\ UsesOf(log[p], job[p].storedSession.sessionId) = {}
              /\ pc[p] # "validateSession"
              /\ Len(log[p]) >= 2 => log[p][2].op = "login-post"
              /\ job[p].session.sessionId # job[p].storedSession.sessionId
              /\ Count(log[p], "store") > 0 =>
                    /\ getStoredSession(sessions).sessionId # job[p].storedSession.sessionId
                    \* created at the instant of the call
                    /\ getStoredSession(sessions).createdAt =
                          job[p].storedSession.createdAt + log[p][1].n)

\* A session created at 0 was validated and used for a listing by a run at
\* exactly 12 hours; the next run, 1 ms later, found it older than 12 hours
\* and has stored a fresh login.
C32_Witness ==
    \E p \in Procs :
       /\ firstRun.done
       /\ firstRun.log[1].n = SESSION_MAX_AGE_MS
       /\ Len(firstRun.log) >= 3
       /\ firstRun.log[2].op = "probe-ok" /\ firstRun.log[3].op = "list"
       /\ firstRun.log[3].sid = 1
       /\ LoadedOld(p) /\ log[p][1].n = SESSION_MAX_AGE_MS + 1
       /\ job[p].storedSession.sessionId = 1 /\ job[p].storedSession.createdAt = 0
       /\ Count(log[p], "store") = 1
       /\ getStoredSession(sessions).sessionId = 2
       /\ getStoredSession(sessions).createdAt = SESSION_MAX_AGE_MS + 1

====
